---- MODULE Spec2Model ----
(***************************************************************************)
(* Turn orchestration of the Telegram <-> opencode bridge: streamSession,  *)
(* its update gate, the permission handshake, the nudge queue and the      *)
(* abort paths.  Every `await` of the source is a point where another      *)
(* handler may run, so each action below is the synchronous stretch of     *)
(* code between two awaits.                                                *)
(***************************************************************************)
EXTENDS Integers, Sequences, FiniteSets, Bags, TLC

\* ------------------------------------------------------------------ bounds
MaxTurns == 2      \* turns (reply messages) that may be started in the chat
MaxSessions == 2   \* sessions the chat context is bound to, one after the other
MaxNudges == 2     \* plain text messages sent while a turn is active
MaxCalls == 2      \* button presses (abort / perm) handled
MaxPerms == 2      \* permission requests the backend raises per turn
MaxParts == 1      \* message.part.updated events delivered per turn
MaxPolls == 2      \* status polls per turn
MaxText == 1       \* lengths the assistant text grows through
MaxUpdates == 2    \* message.updated events delivered per turn
MaxLen == 3        \* characters of a text handed to mergeAssistantText
MaxSnapshot == 2   \* characters of a text the backend delivers to a running turn
MaxWrites == 3     \* texts the backend delivers to a running turn
ManyParts == 2     \* message.part.updated events per turn, where the run is about them
MaxChunk == 4      \* the `max` of splitRawMarkdown: characters per chunk
MaxMarkdown == 8   \* characters of a text handed to splitRawMarkdown
MaxTools == 9      \* tool parts that end a tool call, per turn
MaxChats == 2      \* chats whose session keys are compared
MaxUsers == 2      \* users whose session keys are compared
MaxThreads == 2    \* forum threads of a chat
MaxArgs == 2       \* arguments of the command of a permission request
MaxEdits == 3      \* edits the backend makes to the file
MaxContent == 2    \* contents the file may have
MaxPushes == 21    \* pushUndo calls of the user
MaxPops == 2       \* popUndo calls of the user
MaxTies == 1       \* pushUndo calls in the millisecond of the call before
MaxFinalChunks == 3  \* chunks of a final message
MaxPhaseEvents == 4  \* events and polls of a turn that write its phase
MaxStreamEvents == 3 \* events the subscription of a turn delivers
MaxFiles == 2      \* files the backend edits
MaxGitCommands == 2  \* /git commands that ask for a confirmation
MaxGitCallbacks == 4 \* presses of a Confirm or Cancel button
FewNudges == 1     \* nudges, where the run is about something else
FewCalls == 1      \* button presses, where the run is about something else
FewPerms == 1      \* permission requests per turn, where the run is about something else

Keys == 1..MaxTurns            \* utils.messageKey(chatId, messageId) of a turn
PermIds == 1..MaxPerms         \* permission.id, in the order the backend raises them
NoPerm == 0                    \* pendingPermission === null
NoResolver == 0                \* entry.resolvePermission === undefined

Sessions == 1..MaxSessions

PermTypes == {"read", "bash"}
Profiles == {"strict", "balanced", "power"}

\* ------------------------------------------------------------------ state
VARIABLES
  chatSessions,      \* chatSessions.get(contextKey): the session of the chat context
  activeMessages,    \* keys that have an entry in the activeMessages map
  entrySession,      \* [Keys -> entry.sessionId]
  deleting,          \* entries abortActiveStreamsForSession has still to delete
  command,           \* position of the /new command handler
  starting,          \* input handlers inside startStreamingReply, awaiting ctx.reply
  state,             \* [Keys -> DisplayState of the turn]
  resolvePermission, \* [Keys -> entry.resolvePermission: the request whose wait it resolves]
  pc,                \* [Keys -> position of streamSession's event loop]
  seen,              \* [Keys -> events the loop has taken from the stream]
  poll,              \* [Keys -> the poller (pollPromise): position and polls done]
  gate,              \* [Keys -> locals of update: lastRender, lastKeyboardToken, ...]
  inflight,          \* [Keys -> editMessageText calls of update awaiting the transport]
  permProfile,       \* getUserPermissionProfile(userId)
  allowedRoots,      \* TRUE when getUserAllowedRoots(userId) is a non-empty list
  permissionOverrides, \* loadPermissionOverrides(userId): the user's override rows
  pendingNudges,     \* [Sessions -> pendingNudges.get(sessionId) ?? []]
  nudgeCount,        \* plain text messages taken as nudges so far
  calls,             \* button callbacks being handled (a bag of handler states)
  callCount,         \* button presses received so far
  limits,            \* what the environment may do in this run
  merging,           \* a call of mergeAssistantText: its arguments and its result
  pure,              \* a call of another helper function: its arguments and its result
  sent,              \* [Keys -> what the transport was asked to show]
  backend            \* what the backend was sent

vars == << chatSessions, activeMessages, entrySession, deleting, command, starting, state,
           resolvePermission, pc, seen, poll, gate, inflight, permProfile, allowedRoots,
           permissionOverrides, pendingNudges, nudgeCount, calls, callCount, limits, merging,
           pure, sent, backend >>

\* Variables no step of streamSession writes.
outside == << chatSessions, entrySession, deleting, command, starting, permProfile,
              allowedRoots, permissionOverrides, pendingNudges, nudgeCount, calls, callCount,
              limits, merging, pure >>

\* Variables no input handler or command writes.
inner == << resolvePermission, seen, poll, gate, inflight, permProfile, allowedRoots,
            permissionOverrides, limits, merging, pure >>

\* createDisplayState.  tokens counts the steps' worths credited to state.tokens and
\* state.cost, which are always written together.
createDisplayState ==
  [ phase |-> "thinking", text |-> 0, currentTool |-> FALSE, statusNote |-> FALSE,
    tokens |-> 0, pendingPermission |-> NoPerm, aborted |-> FALSE ]

\* What renderDisplay shows, as far as two renders can differ.
EmptyContent == [ kind |-> "empty", perm |-> NoPerm, text |-> 0, phase |-> "", tool |-> FALSE,
                  note |-> FALSE ]

NoRender == [ stage |-> "none", content |-> EmptyContent, token |-> "abort", plain |-> FALSE ]

\* let lastRender = "", lastUpdate = 0, nextEditAllowedAt = 0,
\* lastKeyboardToken = "abort", usePlainText = false.  inBackoff stands for
\* Date.now() < nextEditAllowedAt, recent for Date.now() - lastUpdate < UPDATE_INTERVAL_MS.
InitGate == [ lastRender |-> [content |-> EmptyContent, plain |-> FALSE],
              lastKeyboardToken |-> "abort",
              inBackoff |-> FALSE, recent |-> FALSE, usePlainText |-> FALSE ]

\* Nothing shown yet: the "Stopped" renders, final renders and error renders of a
\* turn, the permission prompts sent with the permission keyboard, and the renders
\* that non-forced updates sent within UPDATE_INTERVAL_MS of the last send, counted
\* since the last render of a forced update.
InitSent == [ stopped |-> 0, final |-> 0, error |-> 0, prompts |-> {}, quick |-> 0 ]

\* Nothing sent to the backend yet.  Per turn and request: the decisions the
\* permission button posted and the answer the loop itself gave (reject or once).
\* Per session: the combined nudge messages.  Flags: a decision went out for an
\* aborted turn; a text went out while a turn of its session awaited a permission.
InitBackend ==
  [ decisions |-> [t \in Keys |-> [p \in PermIds |-> 0]],
    acks |-> [t \in Keys |-> [p \in PermIds |-> "none"]],
    nudges |-> [s \in Sessions |-> << >>],
    decidedAfterAbort |-> FALSE,
    directWhilePending |-> FALSE ]

\* The settings of a user who never changed them: getUserPermissionProfile falls
\* back to "balanced", there are no allowed roots and no override rows.
DefaultSettings == { [profile |-> "balanced", roots |-> FALSE, overrides |-> << >>] }

\* Override rows a user may have: one that allows a type, and a row with another
\* action followed by one that denies every type.
Overrides ==
  { << [tool |-> "bash", action |-> "allow"] >>,
    << [tool |-> "read", action |-> "ask"], [tool |-> "*", action |-> "deny"] >> }

\* Every profile with and without allowed roots, and the default profile with
\* override rows.
AllSettings ==
  { [profile |-> p, roots |-> r, overrides |-> << >>] : p \in Profiles, r \in BOOLEAN }
  \cup { [profile |-> "balanced", roots |-> r, overrides |-> o] :
            r \in BOOLEAN, o \in Overrides }

\* Nothing taken from the stream yet: const handledMessages = new Set(),
\* let sawStepFinish = false.  handled: the id of the assistant message is in
\* handledMessages; completed: the message.updated event being handled carries a
\* completion time; reports: the usage reports of the step that reached the turn;
\* prompt: what promptPromise settled to ("none": not yet).
NothingSeen ==
  [ perms |-> 0, parts |-> 0, msgs |-> 0, type |-> "none", outside |-> FALSE,
    sawStepFinish |-> FALSE, handled |-> FALSE, completed |-> FALSE, reports |-> << >>,
    prompt |-> "none" ]

\* The bot after start-up, whatever text is being merged.
InitBot(l, settings) ==
  /\ limits = l
  /\ chatSessions = 1
  /\ activeMessages = {}
  /\ entrySession = [t \in Keys |-> 1]
  /\ deleting = {}
  /\ command = "none"
  /\ starting = 0
  /\ state = [t \in Keys |-> createDisplayState]
  /\ resolvePermission = [t \in Keys |-> NoResolver]
  /\ pc = [t \in Keys |-> "free"]
  /\ seen = [t \in Keys |-> NothingSeen]
  /\ poll = [t \in Keys |-> [at |-> "idle", n |-> 0, completed |-> FALSE]]
  /\ gate = [t \in Keys |-> InitGate]
  /\ inflight = [t \in Keys |-> [loop |-> NoRender, poll |-> NoRender]]
  /\ \E s \in settings : /\ permProfile = s.profile
                          /\ allowedRoots = s.roots
                          /\ permissionOverrides = s.overrides
  /\ pendingNudges = [s \in Sessions |-> << >>]
  /\ nudgeCount = 0
  /\ calls = EmptyBag
  /\ callCount = 0
  /\ sent = [t \in Keys |-> InitSent]
  /\ backend = InitBackend

\* No call of mergeAssistantText is looked at.
NoMerge == [ at |-> "none", current |-> << >>, next |-> << >>, result |-> << >> ]

\* No call of another helper is looked at.
NoCall == [ at |-> "none" ]

InitWith(l, settings) == InitBot(l, settings) /\ merging = NoMerge /\ pure = NoCall

\* No message arrives and no turn runs: the run looks at a helper function.
NoTurns ==
  [ turns |-> 0, sessions |-> 1, nudges |-> 0, calls |-> 0, perms |-> 0, parts |-> 0,
    msgs |-> 0, usage |-> FALSE, polls |-> 0, text |-> 0, outcomes |-> {"ok"},
    results |-> {"ok"} ]

\* The characters texts are made of; "\n" stands for the whitespace trim() removes.
Chars == {"a", "b", "\n"}

Whitespace == {"\n"}

\* The texts of up to n characters.
Texts(n) == UNION { [1..k -> Chars] : k \in 0..n }

\* The settings under which one request type is auto-approved, the other is not,
\* and a path may lie outside the allowed roots.
BalancedSettings == { [profile |-> "balanced", roots |-> TRUE, overrides |-> << >>] }

\* One turn of the chat of a user with the default settings, with its buttons,
\* nudges and /new.  The transport accepts
\* every render and the backend sends no text: the update gate is left to InitTurn.
Init ==
  InitWith([ turns |-> 1, sessions |-> MaxSessions, nudges |-> MaxNudges,
             calls |-> MaxCalls, perms |-> MaxPerms, parts |-> 0, msgs |-> 0, usage |-> FALSE, polls |-> 1,
             text |-> 0, outcomes |-> {"ok"}, results |-> {"ok", "failed"} ],
           DefaultSettings)

\* One turn under every setting of the user: the permission policy.
InitPolicy ==
  InitWith([ turns |-> 1, sessions |-> 1, nudges |-> 0,
             calls |-> MaxCalls, perms |-> MaxPerms, parts |-> 0, msgs |-> 0, usage |-> FALSE, polls |-> 1,
             text |-> 0, outcomes |-> {"ok"}, results |-> {"ok", "failed"} ],
           AllSettings)

\* The settings of a user who chose the strict profile: with and without allowed
\* roots, with and without override rows.
StrictSettings ==
  { [profile |-> "strict", roots |-> r, overrides |-> o] :
       r \in BOOLEAN, o \in {<< >>} \cup Overrides }

\* One turn of a user under the strict profile.
InitStrict ==
  InitWith([ turns |-> 1, sessions |-> 1, nudges |-> 0,
             calls |-> MaxCalls, perms |-> MaxPerms, parts |-> 0, msgs |-> 0, usage |-> FALSE, polls |-> 1,
             text |-> 0, outcomes |-> {"ok"}, results |-> {"ok", "failed"} ],
           StrictSettings)

\* One turn with every answer of the transport and the backend: the update gate.
InitTurn ==
  InitWith([ turns |-> 1, sessions |-> 1, nudges |-> 0,
             calls |-> FewCalls, perms |-> MaxPerms, parts |-> MaxParts,
             msgs |-> 0, usage |-> FALSE, polls |-> MaxPolls, text |-> MaxText,
             outcomes |-> {"ok", "retry", "parse", "fail"},
             results |-> {"ok", "noinfo", "failed"} ],
           BalancedSettings)

\* Several turns of the chat side by side, under the default profile.
InitChat ==
  InitWith([ turns |-> MaxTurns, sessions |-> MaxSessions, nudges |-> FewNudges,
             calls |-> FewCalls, perms |-> FewPerms, parts |-> 0, msgs |-> 0, usage |-> FALSE, polls |-> 1,
             text |-> 0, outcomes |-> {"ok"}, results |-> {"ok"} ],
           DefaultSettings)

\* One turn whose backend reports the usage of its step on every channel.
InitUsage ==
  InitWith([ turns |-> 1, sessions |-> 1, nudges |-> 0,
             calls |-> FewCalls, perms |-> FewPerms, parts |-> MaxParts,
             msgs |-> MaxUpdates, usage |-> TRUE, polls |-> MaxPolls, text |-> MaxText,
             outcomes |-> {"ok"}, results |-> {"ok"} ],
           DefaultSettings)

\* mergeAssistantText is about to be called with any transcript and any new text;
\* no turn runs.
InitMerge ==
  /\ InitBot(NoTurns, DefaultSettings)
  /\ pure = NoCall
  /\ \E current, next \in Texts(MaxLen) :
        merging = [ at |-> "call", current |-> current, next |-> next, result |-> << >> ]

\* One turn whose tool parts arrive in quick succession, with a transport that may
\* fail an edit.
InitThrottle ==
  InitWith([ turns |-> 1, sessions |-> 1, nudges |-> 0,
             calls |-> FewCalls, perms |-> FewPerms, parts |-> ManyParts,
             msgs |-> 0, usage |-> FALSE, polls |-> 1, text |-> 0,
             outcomes |-> {"ok", "fail"}, results |-> {"ok"} ],
           DefaultSettings)

\* The characters of a Markdown text: a backtick ("tick"), a letter, a line break.
MarkdownChars == {"tick", "a", "\n"}

\* The end of a turn that was not aborted: the final message of n chunks is about
\* to be sent.  usePlainText is what update left: true when the transport refused a
\* formatted render as unparsable.  chunk, stage: the call awaiting the transport
\* (stage "first", "again" after a pause, "fallback" without parse mode); rejected:
\* a formatted render of the turn was refused as unparsable; sends: the calls made,
\* each with the chunk it carried and whether it had a parse mode.
InitFinal ==
  /\ InitBot(NoTurns, DefaultSettings)
  /\ merging = NoMerge
  /\ \E n \in 1..MaxFinalChunks, plain \in BOOLEAN :
        pure = [ at |-> "final", n |-> n, usePlainText |-> plain, rejected |-> plain,
                 chunk |-> 1, stage |-> "first",
                 sends |-> << [chunk |-> 1, formatted |-> ~plain] >> ]

\* The Turn State of a turn when its event loop starts: phase "thinking", no
\* pending permission.  waiting: the loop is parked in the permission wait; reached:
\* the phase has been tools or responding; events: events and polls handled; by:
\* what wrote the phase last; trail: the phases written so far, in order.
InitPhase ==
  /\ InitBot(NoTurns, DefaultSettings)
  /\ merging = NoMerge
  /\ pure = [ at |-> "phase", phase |-> "thinking", waiting |-> FALSE, reached |-> FALSE,
              events |-> 0, by |-> "none", trail |-> << >> ]

\* The event loop of a turn of session "mine" at its first event.  state: the part
\* of the Turn State events write; renders: update() calls; undo: undo entries
\* created; acks: permission decisions posted; ended: the loop was left; handled:
\* events taken from the stream; last: the event taken last.
InitStream ==
  /\ InitBot(NoTurns, DefaultSettings)
  /\ merging = NoMerge
  /\ pure = [ at |-> "stream",
              state |-> [ phase |-> "thinking", todos |-> 0, filesEdited |-> {},
                          statusNote |-> FALSE, pendingPermission |-> FALSE ],
              renders |-> 0, undo |-> 0, acks |-> 0, ended |-> FALSE, handled |-> 0,
              last |-> [ type |-> "none", session |-> "mine", payload |-> 0 ] ]

\* No entry of pendingGitCommands under an id.
NoPending == [ userId |-> 0, expired |-> FALSE ]

\* const pendingGitCommands = new Map(): empty.  issued: /git commands that asked
\* for a confirmation, the ids handed out; issuer: who sent each; answering,
\* running: handlers past pendingGitCommands.delete, at answerCallbackQuery and at
\* runGitCommand; executed: runs of the command of each id; granted, grants: the
\* callbacks the handler accepted as a confirmation; refused: why it turned
\* others down; direct: commands run without confirmation; calls: buttons pressed.
InitGit ==
  /\ InitBot(NoTurns, DefaultSettings)
  /\ merging = NoMerge
  /\ pure = [ at |-> "git",
              pending |-> [id \in 1..MaxGitCommands |-> NoPending],
              issuer |-> [id \in 1..MaxGitCommands |-> 0],
              answering |-> [id \in 1..MaxGitCommands |-> 0],
              running |-> [id \in 1..MaxGitCommands |-> 0],
              executed |-> [id \in 1..MaxGitCommands |-> 0],
              granted |-> [id \in 1..MaxGitCommands |-> 0],
              grants |-> [id \in 1..MaxGitCommands |-> {}],
              refused |-> [id \in 1..MaxGitCommands |-> {}],
              issued |-> 0, direct |-> 0, calls |-> 0 ]

\* The poller of a turn at its first session.message call: stableCount = 0,
\* lastTextChange = Date.now().  settled: Date.now() - lastTextChange > MIN_STABLE_MS;
\* aborted: state.aborted; quiet: the backend's text has stopped changing; completed:
\* the poll being handled reported a completion time; why: what ended the loop.
InitPoll ==
  /\ InitBot(NoTurns, DefaultSettings)
  /\ merging = NoMerge
  /\ pure = [ at |-> "fetch", stableCount |-> 0, settled |-> FALSE, aborted |-> FALSE,
              quiet |-> FALSE, completed |-> FALSE, why |-> "none" ]

\* The undo_stack rows of one user, empty at first.  rows: in the order they were
\* inserted, each with the id of its entry (the number of its push) and its
\* timestamp; now: Date.now(); popped: the entry the last popUndo returned, 0 for null.
InitUndoStack ==
  /\ InitBot(NoTurns, DefaultSettings)
  /\ merging = NoMerge
  /\ pure = [ at |-> "stack", rows |-> << >>, now |-> 0, pushes |-> 0, pops |-> 0,
              ties |-> 0, popped |-> 0 ]

\* fs.readFile fails: captureFileState returns null.
NoFile == 0

\* One file of the workspace, which exists or not, before the backend edits it.
\* events: the file.edited events under way, each with the content the file had
\* before its edit; filesEdited: state.filesEdited holds the file; entries: the
\* user's undo entries, newest last; undone: the entry executed last.
InitUndo ==
  /\ InitBot(NoTurns, DefaultSettings)
  /\ merging = NoMerge
  /\ \E content \in {NoFile} \cup 1..MaxContent :
        pure = [ at |-> "undo", file |-> content, edits |-> 0, events |-> << >>,
                 filesEdited |-> FALSE, entries |-> << >>, executed |-> 0,
                 undone |-> [previousContent |-> NoFile, existed |-> FALSE, before |-> NoFile] ]

\* The metadata fields extractPathFromPermission reads, in its order.
PathFields == << "path", "file", "filePath", "target", "directory", "cwd" >>

\* What the model keeps of a path: whether path.resolve puts it on or below one of
\* the allowed roots.  NoPath: the field is not a non-empty string.
NoPath == "null"
Paths == {"inside", "outside"}

\* The metadata of a permission request: its path fields, and the args of its
\* command ("word": an argument that is no path; NoArgs: no command with args).
NoArgs == << "none" >>
Metadata ==
  [ fields : [1..Len(PathFields) -> Paths \cup {NoPath}],
    args : {NoArgs} \cup UNION { [1..k -> Paths \cup {"word"}] : k \in 0..MaxArgs } ]

\* Every profile with and without allowed roots, without override rows.
ProfileSettings ==
  { [profile |-> p, roots |-> r, overrides |-> << >>] : p \in Profiles, r \in BOOLEAN }

\* A permission request with any metadata reaches the turn of a user with any
\* profile, with or without allowed roots.
InitSafety ==
  /\ InitBot(NoTurns, ProfileSettings)
  /\ merging = NoMerge
  /\ \E type \in PermTypes, metadata \in Metadata :
        pure = [ at |-> "safety", type |-> type, metadata |-> metadata, answer |-> "none" ]

\* The texts of one user reach the bot.  restricted: ALLOWED_USER_IDS.length > 0;
\* listed: ALLOWED_USER_IDS.includes(userId), which an empty list never does.
InitAccess ==
  /\ InitBot([ turns |-> 1, sessions |-> 1, nudges |-> FewNudges, calls |-> FewCalls,
               perms |-> FewPerms, parts |-> 0, msgs |-> 0, usage |-> FALSE, polls |-> 1,
               text |-> 0, outcomes |-> {"ok"}, results |-> {"ok", "failed"} ],
             DefaultSettings)
  /\ merging = NoMerge
  /\ \E restricted \in BOOLEAN, listed \in BOOLEAN :
        /\ listed => restricted
        /\ pure = [ at |-> "access", restricted |-> restricted, listed |-> listed,
                    shell |-> "none" ]

\* The arguments of buildScopeKey.  userId and threadId are optional: Absent stands
\* for undefined.
Absent == 0
ScopeModes == {"user", "thread", "shared"}
ScopeParams ==
  [ chatId : 1..MaxChats, chatType : {"private", "group"}, threadId : {Absent} \cup 1..MaxThreads,
    userId : {Absent} \cup 1..MaxUsers, mode : ScopeModes ]

\* Two calls of buildScopeKey are about to be made, with any arguments.
InitScope ==
  /\ InitBot(NoTurns, DefaultSettings)
  /\ merging = NoMerge
  /\ \E a \in ScopeParams, b \in ScopeParams :
        pure = [ at |-> "scope", a |-> a, b |-> b, keyA |-> << >>, keyB |-> << >> ]

\* The tools of the backend, and currentTool === null.
Tools == {"grep", "read"}
NoTool == "none"

\* The breadcrumb of a turn that has just started: toolHistory: [], currentTool: null.
\* status: the status of the tool part handled last.
InitBreadcrumb ==
  /\ InitBot(NoTurns, DefaultSettings)
  /\ merging = NoMerge
  /\ pure = [ at |-> "tools", toolHistory |-> << >>, currentTool |-> NoTool,
              breadcrumb |-> << >>, status |-> "none" ]

\* splitRawMarkdown or clampRawMarkdown is about to be called with any text of
\* these characters; no turn runs.
InitMarkdown ==
  /\ InitBot(NoTurns, DefaultSettings)
  /\ merging = NoMerge
  /\ \E text \in UNION { [1..k -> MarkdownChars] : k \in 0..MaxMarkdown } :
        pure = [ at |-> "markdown", text |-> text, chunks |-> << >> ]

\* The transcript of a turn that has just started: state.text = "", the poller
\* awaits the prompt (lastText not yet set), nothing delivered.
InitText ==
  /\ InitBot(NoTurns, DefaultSettings)
  /\ merging = NoMerge
  /\ pure = [ at |-> "text", text |-> << >>, prompted |-> FALSE, lastText |-> << >>,
              writes |-> 0, channel |-> "none", input |-> << >> ]

\* One turn of the chat, to be followed to its end.
InitOne ==
  InitWith([ turns |-> 1, sessions |-> MaxSessions, nudges |-> FewNudges,
             calls |-> MaxCalls, perms |-> FewPerms, parts |-> 0, msgs |-> 0, usage |-> FALSE, polls |-> 1,
             text |-> 0, outcomes |-> {"ok"}, results |-> {"ok", "failed"} ],
           BalancedSettings)

\* ------------------------------------------------------------------ policy
\* safety.checkPermissionSafety: a request whose target path lies outside every
\* allowed root is refused; without allowed roots (or without a path) it passes.
checkPermissionSafety(pathOutside, roots) == ~(roots /\ pathOutside)

\* perms.getAutoAllowSet (of the request types the model draws from)
getAutoAllowSet(profile) ==
  CASE profile = "strict" -> {}
    [] profile = "power" -> {"read", "bash"}
    [] OTHER -> {"read"}

\* for (const override of overrides): the action of the first row that decides.
RECURSIVE firstOverride(_, _)
firstOverride(overrides, type) ==
  IF overrides = << >> THEN "none"
  ELSE LET o == Head(overrides) IN
       IF (o.tool = type \/ o.tool = "*") /\ o.action \in {"allow", "deny"}
       THEN o.action
       ELSE firstOverride(Tail(overrides), type)

\* A plausible bug of shouldAutoAllow: only the overrides are consulted, the profile's set is not.
shouldAutoAllowOverridesOnly(type, profile, overrides) ==
  firstOverride(overrides, type) = "allow"

\* perms.shouldAutoAllow: the first override row for the type (or "*") that allows
\* or denies decides, else the profile's set.
shouldAutoAllow(type, profile, overrides) ==
  LET o == firstOverride(overrides, type) IN
  IF o = "allow" THEN TRUE
  ELSE IF o = "deny" THEN FALSE
  ELSE type \in getAutoAllowSet(profile)

\* ------------------------------------------------------------------ update gate
\* renderDisplay
renderDisplay(st) ==
  IF st.aborted THEN [EmptyContent EXCEPT !.kind = "stopped"]
  ELSE IF st.phase = "permission" /\ st.pendingPermission # NoPerm
    THEN [EmptyContent EXCEPT !.kind = "perm", !.perm = st.pendingPermission]
  ELSE IF st.text > 0
    THEN [EmptyContent EXCEPT !.kind = "body", !.text = st.text, !.tool = st.currentTool]
  ELSE [EmptyContent EXCEPT !.kind = "working", !.phase = st.phase,
                            !.tool = st.currentTool, !.note = st.statusNote]

\* The synchronous part of streamSession.update: the editMessageText call it
\* issues, or NoRender when it returns without sending.
update(st, g, force) ==
  LET permActive == st.phase = "permission" /\ st.pendingPermission # NoPerm
      desiredToken == IF permActive THEN "permission" ELSE "abort"
      keyboardChanged == desiredToken # g.lastKeyboardToken
      formatted == [content |-> renderDisplay(st), plain |-> g.usePlainText]
      contentChanged == formatted # g.lastRender
  IN IF st.aborted THEN NoRender
     ELSE IF g.inBackoff THEN NoRender
     ELSE IF ~force /\ ~contentChanged /\ ~keyboardChanged THEN NoRender
     ELSE IF ~force /\ g.recent /\ ~keyboardChanged THEN NoRender
     ELSE [ stage |-> "first", content |-> formatted.content, token |-> desiredToken,
            plain |-> formatted.plain ]

\* What the transport has been asked to show once update issued render r.
LogPrompt(log, r) ==
  IF r.stage # "none" /\ r.token = "permission" /\ r.content.kind = "perm"
  THEN [log EXCEPT !.prompts = @ \cup {r.content.perm}]
  ELSE log

\* The same once update(true) issued render r, or once the plain-text retry r of
\* a render was issued.
LogRender(log, r) ==
  IF r.stage = "first" THEN [LogPrompt(log, r) EXCEPT !.quick = 0] ELSE LogPrompt(log, r)

\* The same once update() without force issued render r under gate g.
LogUnforced(log, r, g) ==
  IF r.stage = "first"
  THEN [LogPrompt(log, r) EXCEPT !.quick = IF g.recent THEN @ + 1 ELSE 0]
  ELSE LogPrompt(log, r)

\* What the transport may answer to an editMessageText of update.
Outcomes(r) ==
  limits.outcomes \cap
    (IF r.stage = "first"
     THEN {"ok", "retry", "fail"} \cup (IF r.plain THEN {} ELSE {"parse"})
     ELSE {"ok", "fail"})

\* update after its await: the gate once the transport answered `outcome` to r.
gateAfter(g, r, outcome) ==
  CASE outcome = "ok" ->
         [g EXCEPT !.lastRender = [content |-> r.content,
                                   plain |-> (r.plain \/ r.stage = "fallback")],
                   !.recent = TRUE, !.lastKeyboardToken = r.token]
    [] outcome = "retry" -> [g EXCEPT !.inBackoff = TRUE]
    [] outcome = "parse" -> [g EXCEPT !.usePlainText = TRUE]
    [] OTHER -> g

\* The call still awaiting the transport after `outcome`: the plain-text retry
\* after a parse error of a formatted render, else none.
renderAfter(g, r, outcome) ==
  IF outcome = "parse" /\ ~g.usePlainText
  THEN [r EXCEPT !.stage = "fallback", !.plain = TRUE]
  ELSE NoRender

\* ------------------------------------------------------------------ user input
Used == {t \in Keys : pc[t] # "free"}

\* A further turn may still be started within the bound.
MayStart == starting + Cardinality(Used) < limits.turns

Min(S) == CHOOSE x \in S : \A y \in S : x <= y

\* [...activeMessages.values()].find(e => e.sessionId === currentSessionId && !e.state.aborted):
\* the first such entry in insertion order (keys are handed out in that order), or 0.
activeEntry ==
  LET found == {t \in activeMessages : entrySession[t] = chatSessions /\ ~state[t].aborted}
  IN IF found = {} THEN 0 ELSE Min(found)

\* Some active turn of session s awaits a permission decision.
SessionAwaitsPermission(s) ==
  \E t \in activeMessages :
     entrySession[t] = s /\ ~state[t].aborted /\ state[t].pendingPermission # NoPerm

\* queueNudge: pendingNudges.get(sessionId) ?? [], push, set
queueNudge(q, s, text) == [q EXCEPT ![s] = Append(@, text)]

\* bot.on("message:text") for a plain, non-empty text: a nudge for the active turn
\* of the context's session (queued while it awaits a permission), else a new turn.
MessageText ==
  /\ IF activeEntry # 0
     THEN /\ nudgeCount < limits.nudges
          /\ nudgeCount' = nudgeCount + 1
          /\ IF state[activeEntry].pendingPermission # NoPerm
             THEN /\ pendingNudges' =
                       queueNudge(pendingNudges, entrySession[activeEntry], nudgeCount + 1)
                  /\ UNCHANGED backend
             ELSE /\ backend' = [backend EXCEPT !.directWhilePending =
                                   @ \/ SessionAwaitsPermission(entrySession[activeEntry])]
                  /\ UNCHANGED pendingNudges
          /\ UNCHANGED starting
     ELSE /\ MayStart
          /\ starting' = starting + 1
          /\ UNCHANGED << nudgeCount, pendingNudges, backend >>
  /\ UNCHANGED << inner, chatSessions, activeMessages, entrySession, deleting, command,
                  state, pc, calls, callCount, sent >>

\* bot.on("message:photo" | "message:document" | "message:voice" | "message:audio") and
\* the workflow callback: each calls startStreamingReply without looking at activeMessages.
MessageMedia ==
  /\ MayStart
  /\ starting' = starting + 1
  /\ UNCHANGED << inner, chatSessions, activeMessages, entrySession, deleting, command,
                  state, pc, pendingNudges, nudgeCount, calls, callCount, sent, backend >>

\* startStreamingReply after ctx.reply returned the new message, then streamSession up
\* to its first await (event.subscribe): the entry is put into activeMessages.
StartStreamingReply ==
  /\ starting > 0
  /\ LET t == Min(Keys \ Used) IN
     /\ starting' = starting - 1
     /\ activeMessages' = activeMessages \cup {t}
     /\ entrySession' = [entrySession EXCEPT ![t] = chatSessions]
     /\ state' = [state EXCEPT ![t] = createDisplayState]
     /\ pc' = [pc EXCEPT ![t] = "subscribe"]
  /\ UNCHANGED << inner, chatSessions, deleting, command, pendingNudges, nudgeCount,
                  calls, callCount, sent, backend >>

\* streamSession once event.subscribe returned: the prompt is sent, the poller starts
\* (and awaits the prompt), the loop awaits the first event.
Subscribed(t) ==
  /\ pc[t] = "subscribe"
  /\ poll' = [poll EXCEPT ![t].at = "prompt"]
  /\ pc' = [pc EXCEPT ![t] = "next"]
  /\ UNCHANGED << outside, activeMessages, state, resolvePermission, seen, gate, inflight,
                  sent, backend >>

\* event.subscribe rejects: the outer catch shows "Error processing message."
SubscribeFails(t) ==
  /\ pc[t] = "subscribe"
  /\ "failed" \in limits.results
  /\ sent' = [sent EXCEPT ![t].error = @ + 1]
  /\ pc' = [pc EXCEPT ![t] = "final"]
  /\ UNCHANGED << outside, activeMessages, state, resolvePermission, seen, poll, gate,
                  inflight, backend >>

\* ------------------------------------------------------------------ streamSession: usage
\* One usage report of the backend's step reaches the turn on `channel`.  A
\* step-finish part is credited always; a snapshot of the assistant message (from
\* the prompt or a poll: "poll", from message.updated: "message") is credited
\* unless sawStepFinish is set.
credit(st, latch, channel) ==
  IF channel = "step-finish" \/ ~latch THEN [st EXCEPT !.tokens = @ + 1] ELSE st

\* sawStepFinish = true, by a step-finish part only.
latched(latch, channel) == latch \/ channel = "step-finish"

\* The state of turn t once a report on `channel` was handled; a backend that
\* reports no usage (info.tokens undefined) leaves it alone.
reported(t, st, channel) ==
  IF limits.usage THEN credit(st, seen[t].sawStepFinish, channel) ELSE st

\* The loop's and the poller's record of what reached the turn, after such a report.
noted(t, sn, channel) ==
  IF limits.usage
  THEN [sn EXCEPT !.sawStepFinish = latched(@, channel), !.reports = Append(@, channel)]
  ELSE sn

\* ------------------------------------------------------------------ streamSession: poller
\* `while (!state.aborted)` of the poller: the next session.message call, or the end.
pollTop(st) == IF st.aborted THEN "end" ELSE "fetch"

\* The poller after the text of a poll was handled: it stops on a completion
\* timestamp or a stable text, else it sleeps.
pollRest(completed, stable) == IF completed \/ stable THEN "end" ELSE "sleep"

\* pollPromise once promptPromise settled.  `result` is what the prompt gave: "failed"
\* (rejected, promptData null), "noinfo" (data without an assistant message) or "ok";
\* hasText: the returned parts carry text.
PromptReturns(t, result, hasText) ==
  /\ poll[t].at = "prompt"
  /\ result \in limits.results
  /\ hasText => result = "ok" /\ limits.text > 0
  /\ IF state[t].aborted \/ result # "ok"
     THEN /\ poll' = [poll EXCEPT ![t].at = "end"]
          /\ seen' = [seen EXCEPT ![t].prompt = result]
          /\ UNCHANGED << state, inflight, sent >>
     ELSE LET credited == reported(t, state[t], "poll") IN
          /\ seen' = [seen EXCEPT ![t] = [noted(t, @, "poll") EXCEPT !.prompt = result]]
          /\ IF hasText
             THEN LET st == [credited EXCEPT !.phase = "responding", !.text = 1]
                      r == update(st, gate[t], TRUE)
                  IN /\ state' = [state EXCEPT ![t] = st]
                     /\ inflight' = [inflight EXCEPT ![t].poll = r]
                     /\ sent' = [sent EXCEPT ![t] = LogRender(@, r)]
                     /\ poll' = [poll EXCEPT ![t].at =
                                   IF r.stage = "none" THEN pollTop(st) ELSE "upd0"]
             ELSE /\ state' = [state EXCEPT ![t] = credited]
                  /\ poll' = [poll EXCEPT ![t].at = pollTop(state[t])]
                  /\ UNCHANGED << inflight, sent >>
  /\ UNCHANGED << outside, activeMessages, resolvePermission, pc, gate, backend >>

\* One poll: session.message returned.  changed: its text differs from lastText;
\* completed: info.time.completed is set; stable: the stability rule holds.
PollReturns(t, changed, completed, stable) ==
  /\ poll[t].at = "fetch"
  /\ ~(changed /\ stable)
  /\ changed => state[t].text < limits.text
  /\ poll[t].n + 1 < limits.polls \/ completed \/ stable
  /\ IF changed
     THEN LET st == [state[t] EXCEPT !.phase = "responding", !.text = @ + 1]
              r == update(st, gate[t], TRUE)
          IN /\ inflight' = [inflight EXCEPT ![t].poll = r]
             /\ sent' = [sent EXCEPT ![t] = LogRender(@, r)]
             /\ IF r.stage = "none"
                THEN /\ state' = [state EXCEPT ![t] = reported(t, st, "poll")]
                     /\ seen' = [seen EXCEPT ![t] = noted(t, @, "poll")]
                     /\ poll' = [poll EXCEPT ![t] =
                          [ at |-> pollRest(completed, FALSE), n |-> @.n + 1,
                            completed |-> FALSE ]]
                ELSE /\ state' = [state EXCEPT ![t] = st]
                     /\ poll' = [poll EXCEPT ![t] =
                          [ at |-> "upd", n |-> @.n + 1, completed |-> completed ]]
                     /\ UNCHANGED seen
     ELSE /\ state' = [state EXCEPT ![t] = reported(t, @, "poll")]
          /\ seen' = [seen EXCEPT ![t] = noted(t, @, "poll")]
          /\ poll' = [poll EXCEPT ![t] =
                  [ at |-> pollRest(completed, stable), n |-> @.n + 1,
                    completed |-> FALSE ]]
          /\ UNCHANGED << inflight, sent >>
  /\ UNCHANGED << outside, activeMessages, resolvePermission, pc, gate, backend >>

\* utils.sleep(delay) of the poller is over.
PollWakes(t) ==
  /\ poll[t].at = "sleep"
  /\ poll' = [poll EXCEPT ![t].at = pollTop(state[t])]
  /\ UNCHANGED << outside, activeMessages, state, resolvePermission, pc, seen, gate,
                  inflight, sent, backend >>

\* The transport answers the editMessageText that update issued for the poller; the
\* poll that issued it then goes on to the usage of its snapshot.
PollUpdateReturns(t, outcome) ==
  /\ poll[t].at \in {"upd0", "upd"}
  /\ LET r == inflight[t].poll
         again == renderAfter(gate[t], r, outcome)
     IN /\ outcome \in Outcomes(r)
        /\ gate' = [gate EXCEPT ![t] = gateAfter(@, r, outcome)]
        /\ inflight' = [inflight EXCEPT ![t].poll = again]
        /\ poll' = [poll EXCEPT ![t] =
             IF again.stage # "none" THEN @
             ELSE IF @.at = "upd0" THEN [at |-> pollTop(state[t]), n |-> @.n, completed |-> FALSE]
             ELSE [at |-> pollRest(@.completed, FALSE), n |-> @.n, completed |-> FALSE]]
        /\ IF again.stage = "none" /\ poll[t].at = "upd"
           THEN /\ state' = [state EXCEPT ![t] = reported(t, @, "poll")]
                /\ seen' = [seen EXCEPT ![t] = noted(t, @, "poll")]
           ELSE UNCHANGED << state, seen >>
  /\ UNCHANGED << outside, activeMessages, resolvePermission, pc, sent, backend >>

\* ------------------------------------------------------------------ streamSession: event loop
\* Where the loop goes when the body of an iteration is over: `break eventLoop` when
\* the turn is aborted ("join": finally { abortController.abort() }, then
\* await pollPromise), else the next event.
loopNext(st) == IF st.aborted THEN "join" ELSE "next"

\* abortController.signal.aborted: set by the abort paths and on leaving the loop.
signal(t) == state[t].aborted \/ pc[t] \in {"join", "final", "end"}

\* `await new Promise(resolve => ...)` of permission.updated: without an entry the
\* wait resolves at once, else the resolver is stored on the entry and the loop waits.
permissionWait(t, st, id) ==
  IF t \notin activeMessages
  THEN [ at |-> loopNext(st), resolver |-> resolvePermission[t] ]
  ELSE [ at |-> "wait", resolver |-> id ]

\* case "permission.updated" up to its first await.  Request number id, of `type`,
\* with a target path outside the allowed roots (if there are any) or not.
EvPermission(t, type, pathOutside) ==
  /\ pc[t] = "next" /\ ~signal(t)
  /\ seen[t].perms < limits.perms
  /\ pathOutside => allowedRoots
  /\ LET id == seen[t].perms + 1 IN
     /\ seen' = [seen EXCEPT ![t].perms = id, ![t].type = type, ![t].outside = pathOutside]
     /\ IF ~checkPermissionSafety(pathOutside, allowedRoots)
        THEN /\ backend' = [backend EXCEPT !.acks[t][id] = "reject"]
             /\ pc' = [pc EXCEPT ![t] = "ackReject"]
             /\ UNCHANGED << state, resolvePermission, inflight, sent >>
        ELSE IF shouldAutoAllow(type, permProfile, permissionOverrides)
        THEN /\ backend' = [backend EXCEPT !.acks[t][id] = "once"]
             /\ pc' = [pc EXCEPT ![t] = "ackOnce"]
             /\ UNCHANGED << state, resolvePermission, inflight, sent >>
        ELSE LET st == [state[t] EXCEPT !.phase = "permission", !.pendingPermission = id]
                 r == update(st, gate[t], TRUE)
                 w == permissionWait(t, st, id)
             IN /\ state' = [state EXCEPT ![t] = st]
                /\ inflight' = [inflight EXCEPT ![t].loop = r]
                /\ sent' = [sent EXCEPT ![t] = LogRender(@, r)]
                /\ IF r.stage # "none"
                   THEN /\ pc' = [pc EXCEPT ![t] = "permUpd"]
                        /\ UNCHANGED resolvePermission
                   ELSE /\ pc' = [pc EXCEPT ![t] = w.at]
                        /\ resolvePermission' = [resolvePermission EXCEPT ![t] = w.resolver]
                /\ UNCHANGED backend
  /\ UNCHANGED << outside, activeMessages, poll, gate >>

\* postSessionIdPermissionsPermissionId of the loop (reject or once) returned, or threw:
\* a throw leaves the loop through its catch.
AckReturns(t, ok) ==
  /\ pc[t] \in {"ackReject", "ackOnce"}
  /\ ~ok => "failed" \in limits.results
  /\ IF ~ok
     THEN /\ pc' = [pc EXCEPT ![t] = "join"]
          /\ UNCHANGED << state, inflight, sent >>
     ELSE IF pc[t] = "ackOnce"
     THEN /\ pc' = [pc EXCEPT ![t] = "next"]
          /\ UNCHANGED << state, inflight, sent >>
     ELSE LET st == [state[t] EXCEPT !.statusNote = TRUE]
              r == update(st, gate[t], TRUE)
          IN /\ state' = [state EXCEPT ![t] = st]
             /\ inflight' = [inflight EXCEPT ![t].loop = r]
             /\ sent' = [sent EXCEPT ![t] = LogRender(@, r)]
             /\ pc' = [pc EXCEPT ![t] = IF r.stage # "none" THEN "upd" ELSE "next"]
  /\ UNCHANGED << outside, activeMessages, resolvePermission, seen, poll, gate, backend >>

\* case "message.updated" up to its await: an event for the assistant message of
\* the step; one that is completed and already in handledMessages is skipped.
EvMessageUpdated(t, completed) ==
  /\ pc[t] = "next" /\ ~signal(t)
  /\ seen[t].msgs < limits.msgs
  /\ IF seen[t].handled /\ completed
     THEN /\ seen' = [seen EXCEPT ![t].msgs = @ + 1]
          /\ UNCHANGED pc
     ELSE /\ seen' = [seen EXCEPT ![t].msgs = @ + 1, ![t].completed = completed]
          /\ pc' = [pc EXCEPT ![t] = "msgFetch"]
  /\ UNCHANGED << outside, activeMessages, state, resolvePermission, poll, gate, inflight,
                  sent, backend >>

\* The end of case "message.updated": the usage of the snapshot, then
\* handledMessages.add(info.id) for a completed message.
messageSeen(t, sn) ==
  [noted(t, sn, "message") EXCEPT !.handled = @ \/ sn.completed, !.completed = FALSE]

\* case "message.updated" once session.message returned.  changed: its text differs
\* from state.text.
MessageFetched(t, changed) ==
  /\ pc[t] = "msgFetch"
  /\ changed => state[t].text < limits.text
  /\ LET st == IF changed THEN [state[t] EXCEPT !.phase = "responding", !.text = @ + 1]
               ELSE state[t]
         r == IF changed THEN update(st, gate[t], TRUE) ELSE NoRender
     IN /\ inflight' = [inflight EXCEPT ![t].loop = r]
        /\ sent' = [sent EXCEPT ![t] = LogRender(@, r)]
        /\ IF r.stage # "none"
           THEN /\ state' = [state EXCEPT ![t] = st]
                /\ pc' = [pc EXCEPT ![t] = "msgUpd"]
                /\ UNCHANGED seen
           ELSE /\ state' = [state EXCEPT ![t] = reported(t, st, "message")]
                /\ seen' = [seen EXCEPT ![t] = messageSeen(t, @)]
                /\ pc' = [pc EXCEPT ![t] = "next"]
  /\ UNCHANGED << outside, activeMessages, resolvePermission, poll, gate, backend >>

\* case "message.part.updated" for a tool part (running, or completed/error), a
\* text delta or a step-finish part: the state it leaves.
partState(t, st, part) ==
  CASE part = "running" -> [st EXCEPT !.phase = "tools", !.currentTool = TRUE]
    [] part = "completed" -> [st EXCEPT !.phase = "tools", !.currentTool = FALSE]
    [] part = "step-finish" -> reported(t, st, "step-finish")
    [] OTHER -> [st EXCEPT !.phase = "responding", !.text = @ + 1]

\* case "message.part.updated" up to the await of update(); a step-finish part
\* calls no update.
EvPart(t, part) ==
  /\ pc[t] = "next" /\ ~signal(t)
  /\ seen[t].parts < limits.parts
  /\ part = "text" => state[t].text < limits.text
  /\ part = "step-finish" => limits.usage
  /\ seen' = [seen EXCEPT ![t] =
               IF part = "step-finish"
               THEN [noted(t, @, "step-finish") EXCEPT !.parts = @ + 1]
               ELSE [@ EXCEPT !.parts = @ + 1]]
  /\ LET st == partState(t, state[t], part)
         r == IF part = "step-finish" THEN NoRender ELSE update(st, gate[t], FALSE)
     IN /\ state' = [state EXCEPT ![t] = st]
        /\ inflight' = [inflight EXCEPT ![t].loop = r]
        /\ sent' = [sent EXCEPT ![t] = LogUnforced(@, r, gate[t])]
        /\ pc' = [pc EXCEPT ![t] = IF r.stage # "none" THEN "upd" ELSE "next"]
  /\ UNCHANGED << outside, activeMessages, resolvePermission, poll, gate, backend >>

\* The transport answers the editMessageText that update issued for the loop; case
\* "message.updated" then goes on to the usage of its snapshot.
LoopUpdateReturns(t, outcome) ==
  /\ pc[t] \in {"upd", "permUpd", "msgUpd"}
  /\ LET r == inflight[t].loop
         again == renderAfter(gate[t], r, outcome)
         w == permissionWait(t, state[t], seen[t].perms)
         at == IF again.stage # "none" THEN pc[t]
               ELSE IF pc[t] = "permUpd" THEN w.at ELSE "next"
     IN /\ outcome \in Outcomes(r)
        /\ IF pc[t] = "msgUpd" /\ again.stage = "none"
           THEN /\ state' = [state EXCEPT ![t] = reported(t, @, "message")]
                /\ seen' = [seen EXCEPT ![t] = messageSeen(t, @)]
           ELSE UNCHANGED << state, seen >>
        /\ gate' = [gate EXCEPT ![t] = gateAfter(@, r, outcome)]
        /\ inflight' = [inflight EXCEPT ![t].loop = again]
        /\ sent' = [sent EXCEPT ![t] = LogRender(@, again)]
        /\ pc' = [pc EXCEPT ![t] = at]
        /\ resolvePermission' = [resolvePermission EXCEPT ![t] =
                                    IF at = "wait" THEN w.resolver ELSE @]
  /\ UNCHANGED << outside, activeMessages, poll, backend >>

\* The loop leaves `for await`: session.idle arrived, the stream threw or ended, or
\* an event arrived after the turn was aborted (`if (state.aborted) break`).
LoopExit(t, why) ==
  /\ pc[t] = "next"
  /\ why = "aborted" <=> state[t].aborted
  /\ why = "error" => "failed" \in limits.results
  /\ pc' = [pc EXCEPT ![t] = "join"]
  /\ UNCHANGED << outside, activeMessages, state, resolvePermission, seen, poll, gate,
                  inflight, sent, backend >>

\* pollPromise has settled: the final render is sent.
FinalRender(t) ==
  /\ pc[t] = "join"
  /\ poll[t].at = "end"
  /\ sent' = [sent EXCEPT ![t] = IF state[t].aborted THEN [@ EXCEPT !.stopped = @ + 1]
                                 ELSE [@ EXCEPT !.final = @ + 1]]
  /\ pc' = [pc EXCEPT ![t] = "final"]
  /\ UNCHANGED << outside, activeMessages, state, resolvePermission, seen, poll, gate,
                  inflight, backend >>

\* The last edit returned; finally { typing = false; activeMessages.delete(key) }
StreamSessionEnds(t) ==
  /\ pc[t] = "final"
  /\ activeMessages' = activeMessages \ {t}
  /\ pc' = [pc EXCEPT ![t] = "end"]
  /\ UNCHANGED << outside, state, resolvePermission, seen, poll, gate, inflight, sent,
                  backend >>

\* ------------------------------------------------------------------ button callbacks
\* The loop once the resolver stored on the entry was called: a loop suspended in
\* the permission wait goes on, any other call resolves a promise already resolved.
resumeAt(t, st) ==
  IF pc[t] = "wait" /\ resolvePermission[t] # NoResolver THEN loopNext(st) ELSE pc[t]

\* A button of message t is pressed: the handler looks the entry up and awaits
\* answerCallbackQuery.
Callback(t, kind) ==
  /\ pc[t] # "free"
  /\ callCount < limits.calls
  /\ callCount' = callCount + 1
  /\ calls' = calls (+) SetToBag({[ kind |-> kind, key |-> t, at |-> "answer",
                                    entry |-> (t \in activeMessages) ]})
  /\ UNCHANGED << inner, chatSessions, activeMessages, entrySession, deleting, command,
                  starting, state, pc, pendingNudges, nudgeCount, sent, backend >>

\* The abort button: the reply message carries it from the start.
CallbackAbort(t) == Callback(t, "abort")

\* A permission button: the message has been given the permission keyboard.
CallbackPerm(t) == sent[t].prompts # {} /\ Callback(t, "perm")

\* bot.callbackQuery("abort") after answerCallbackQuery.
AbortCallbackActs(c) ==
  /\ BagIn(c, calls) /\ c.kind = "abort"
  /\ calls' = calls (-) SetToBag({c})
  /\ IF ~c.entry
     THEN UNCHANGED << state, pc, sent >>
     ELSE LET t == c.key
              st == [state[t] EXCEPT !.aborted = TRUE]
          IN /\ state' = [state EXCEPT ![t] = st]
             /\ pc' = [pc EXCEPT ![t] = resumeAt(t, st)]
             /\ sent' = [sent EXCEPT ![t].stopped = @ + 1]
  /\ UNCHANGED << inner, chatSessions, activeMessages, entrySession, deleting, command,
                  starting, pendingNudges, nudgeCount, callCount, backend >>

\* bot.callbackQuery(/^perm:/) after answerCallbackQuery: with a pending permission
\* the decision is posted to the backend.
PermCallbackChecks(c) ==
  /\ BagIn(c, calls) /\ c.kind = "perm" /\ c.at = "answer"
  /\ IF ~c.entry \/ state[c.key].pendingPermission = NoPerm
     THEN /\ calls' = calls (-) SetToBag({c})
          /\ UNCHANGED backend
     ELSE /\ calls' = (calls (-) SetToBag({c})) (+) SetToBag({[c EXCEPT !.at = "post"]})
          /\ backend' = [backend EXCEPT
               !.decisions[c.key][state[c.key].pendingPermission] = @ + 1,
               !.decidedAfterAbort = @ \/ state[c.key].aborted]
  /\ UNCHANGED << inner, chatSessions, activeMessages, entrySession, deleting, command,
                  starting, state, pc, pendingNudges, nudgeCount, callCount, sent >>

\* A plausible bug of takeQueuedNudges: the queue is read but not deleted.
takeQueuedNudgesKeeps(q, s) == q

\* takeQueuedNudges: the queue of the session is read and deleted in one step.
takeQueuedNudges(q, s) == [q EXCEPT ![s] = << >>]

\* The nudges sent to the backend when the queue q of session s is flushed:
\* one promptAsync with queued.join("\n"), none for an empty queue.
flushed(log, s, q) == IF q = << >> THEN log ELSE [log EXCEPT !.nudges[s] = Append(@, q)]

\* bot.callbackQuery(/^perm:/) after the post returned (or threw).
PermCallbackPosted(c, ok) ==
  /\ BagIn(c, calls) /\ c.kind = "perm" /\ c.at = "post"
  /\ ~ok => "failed" \in limits.results
  /\ calls' = calls (-) SetToBag({c})
  /\ IF ~ok
     THEN UNCHANGED << state, resolvePermission, pc, pendingNudges, backend >>
     ELSE LET t == c.key
              s == entrySession[t]
              st == [state[t] EXCEPT !.pendingPermission = NoPerm, !.phase = "tools"]
          IN /\ state' = [state EXCEPT ![t] = st]
             /\ resolvePermission' = [resolvePermission EXCEPT ![t] = NoResolver]
             /\ pc' = [pc EXCEPT ![t] = resumeAt(t, st)]
             /\ backend' = flushed(backend, s, pendingNudges[s])
             /\ pendingNudges' = takeQueuedNudges(pendingNudges, s)
  /\ UNCHANGED << chatSessions, activeMessages, entrySession, deleting, command, starting,
                  seen, poll, gate, inflight, permProfile, allowedRoots,
                  permissionOverrides, limits, merging, pure, nudgeCount, callCount,
                  sent >>

\* ------------------------------------------------------------------ /new
\* bot.command("new"): abortActiveStreamsForSession up to the awaits of its edits.
\* Every entry of the context's session is aborted and shown "Stopped".
AbortActiveStreamsForSession ==
  /\ command = "none"
  /\ chatSessions < limits.sessions
  /\ LET entries == {t \in activeMessages : entrySession[t] = chatSessions}
         st(t) == [state[t] EXCEPT !.aborted = TRUE]
     IN /\ state' = [t \in Keys |-> IF t \in entries THEN st(t) ELSE state[t]]
        /\ pc' = [t \in Keys |-> IF t \in entries THEN resumeAt(t, st(t)) ELSE pc[t]]
        /\ resolvePermission' = [t \in Keys |-> IF t \in entries THEN NoResolver
                                                ELSE resolvePermission[t]]
        /\ sent' = [t \in Keys |-> IF t \in entries
                                   THEN [sent[t] EXCEPT !.stopped = @ + 1] ELSE sent[t]]
        /\ deleting' = deleting \cup entries
        /\ command' = "abort"
  /\ UNCHANGED << chatSessions, activeMessages, entrySession, starting, seen, poll, gate,
                  inflight, permProfile, allowedRoots, permissionOverrides, limits, merging,
                  pure, pendingNudges, nudgeCount, calls, callCount, backend >>

\* abortActiveStreamsForSession after the edit of one entry: activeMessages.delete(key)
AbortedStreamDeleted(t) ==
  /\ t \in deleting
  /\ deleting' = deleting \ {t}
  /\ activeMessages' = activeMessages \ {t}
  /\ UNCHANGED << inner, chatSessions, entrySession, command, starting, state, pc,
                  pendingNudges, nudgeCount, calls, callCount, sent, backend >>

\* bot.command("new") after abortActiveStreamsForSession: createNewSessionForChat
\* binds the context to a new session.
createNewSessionForChat ==
  /\ command = "abort"
  /\ deleting = {}
  /\ chatSessions' = chatSessions + 1
  /\ command' = "none"
  /\ UNCHANGED << inner, activeMessages, entrySession, deleting, starting, state, pc,
                  pendingNudges, nudgeCount, calls, callCount, sent, backend >>

\* ------------------------------------------------------------------ time
Running(t) == pc[t] \notin {"free", "end"}

\* Date.now() reaches nextEditAllowedAt: the rate-limit pause of the turn is over.
BackoffElapses(t) ==
  /\ Running(t) /\ gate[t].inBackoff
  /\ gate' = [gate EXCEPT ![t].inBackoff = FALSE]
  /\ UNCHANGED << outside, activeMessages, state, resolvePermission, pc, seen, poll,
                  inflight, sent, backend >>

\* UPDATE_INTERVAL_MS has passed since lastUpdate.
IntervalElapses(t) ==
  /\ Running(t) /\ gate[t].recent
  /\ gate' = [gate EXCEPT ![t].recent = FALSE]
  /\ UNCHANGED << outside, activeMessages, state, resolvePermission, pc, seen, poll,
                  inflight, sent, backend >>

\* ------------------------------------------------------------------ text
\* String.prototype.trim, from the start and from the end.
RECURSIVE trimStart(_)
trimStart(s) == IF s # << >> /\ Head(s) \in Whitespace THEN trimStart(Tail(s)) ELSE s

RECURSIVE trimEnd(_)
trimEnd(s) ==
  IF s # << >> /\ s[Len(s)] \in Whitespace THEN trimEnd(SubSeq(s, 1, Len(s) - 1)) ELSE s

\* normalizeDisplayText: (text ?? "").trim()
normalizeDisplayText(text) == trimEnd(trimStart(text))

\* String.prototype.startsWith and endsWith
startsWith(s, p) == Len(p) <= Len(s) /\ SubSeq(s, 1, Len(p)) = p

endsWith(s, p) == Len(p) <= Len(s) /\ SubSeq(s, Len(s) - Len(p) + 1, Len(s)) = p

\* mergeAssistantText
mergeAssistantText(current, next) ==
  LET normalizedNext == normalizeDisplayText(next) IN
  IF normalizedNext = << >> THEN current
  ELSE IF current = << >> THEN normalizedNext
  ELSE IF startsWith(normalizedNext, current) THEN normalizedNext
  ELSE IF startsWith(current, normalizedNext) THEN current
  ELSE current \o (IF endsWith(current, << "\n" >>) THEN << >> ELSE << "\n" >>)
               \o normalizedNext

\* The call of mergeAssistantText returns.
MergeAssistantText ==
  /\ merging.at = "call"
  /\ merging' = [merging EXCEPT !.at = "done",
                                 !.result = mergeAssistantText(merging.current, merging.next)]
  /\ UNCHANGED << chatSessions, activeMessages, entrySession, deleting, command, starting,
                  state, resolvePermission, pc, seen, poll, gate, inflight, permProfile,
                  allowedRoots, permissionOverrides, pendingNudges, nudgeCount, calls,
                  callCount, limits, pure, sent, backend >>

\* The frame of a step that only looks at a helper function.
bot == << chatSessions, activeMessages, entrySession, deleting, command, starting, state,
          resolvePermission, pc, seen, poll, gate, inflight, permProfile, allowedRoots,
          permissionOverrides, pendingNudges, nudgeCount, calls, callCount, limits, sent,
          backend >>

\* ------------------------------------------------------------------ markdown
\* String.prototype.slice(from, to), with JavaScript's indices from 0.
slice(s, from, to) == SubSeq(s, from + 1, to)

\* String.prototype.lastIndexOf(pattern, from): the last index <= from at which
\* pattern occurs, or -1.
lastIndexOf(s, pattern, from) ==
  LET found == { i \in 0..from : /\ i + Len(pattern) <= Len(s)
                                 /\ slice(s, i, i + Len(pattern)) = pattern }
  IN IF found = {} THEN -1 ELSE CHOOSE i \in found : \A j \in found : j <= i

Fence == << "tick", "tick", "tick" >>

\* (prefix.match(/```/g) ?? []).length: the matches do not overlap.
RECURSIVE fenceCount(_)
fenceCount(s) ==
  IF Len(s) < 3 THEN 0
  ELSE IF slice(s, 0, 3) = Fence THEN 1 + fenceCount(slice(s, 3, Len(s)))
  ELSE fenceCount(Tail(s))

\* The split point both functions compute for a text longer than max: the last
\* blank line, line break or blank in the second half of the first max characters,
\* else max; moved to the last fence when the prefix holds an odd number of them.
cutPoint(text, max) ==
  LET c1 == lastIndexOf(text, << "\n", "\n" >>, max)
      c2 == IF 2 * c1 < max THEN lastIndexOf(text, << "\n" >>, max) ELSE c1
      c3 == IF 2 * c2 < max THEN lastIndexOf(text, << " " >>, max) ELSE c2
      c4 == IF 2 * c3 < max THEN max ELSE c3
      prefix == slice(text, 0, c4)
      lastFence == lastIndexOf(prefix, Fence, Len(prefix))
  IN IF fenceCount(prefix) % 2 = 1 /\ lastFence > 0 THEN lastFence ELSE c4

\* The while loop of splitRawMarkdown.
RECURSIVE splitLoop(_, _, _)
splitLoop(chunks, remaining, max) ==
  IF Len(remaining) = 0 THEN chunks
  ELSE IF Len(remaining) <= max THEN Append(chunks, remaining)
  ELSE LET c == cutPoint(remaining, max)
           cut == IF Len(trimEnd(slice(remaining, 0, c))) = 0 THEN max ELSE c
       IN splitLoop(Append(chunks, trimEnd(slice(remaining, 0, cut))),
                    trimStart(slice(remaining, cut, Len(remaining))), max)

\* splitRawMarkdown
splitRawMarkdown(text, max) ==
  IF Len(text) <= max THEN << text >> ELSE splitLoop(<< >>, text, max)

\* clampRawMarkdown(text).text, with RAW_MARKDOWN_SAFE_LIMIT as a parameter
clampRawMarkdown(text, limit) ==
  IF Len(text) <= limit THEN text
  ELSE trimEnd(slice(text, 0, cutPoint(text, limit))) \o << ".", ".", "." >>

\* The call of splitRawMarkdown (clamp: of clampRawMarkdown) returns.
SplitRawMarkdown(clamp) ==
  /\ pure.at = "markdown"
  /\ pure' = [ pure EXCEPT
        !.at = IF clamp THEN "clamped" ELSE "split",
        !.chunks = IF clamp THEN << clampRawMarkdown(pure.text, MaxChunk) >>
                   ELSE splitRawMarkdown(pure.text, MaxChunk) ]
  /\ UNCHANGED << bot, merging >>

\* ------------------------------------------------------------------ final message
\* The final message after the call for a chunk is over: the call for the next
\* chunk goes out with the parse mode chosen before the first chunk, or the turn ends.
nextChunk(p) ==
  IF p.chunk < p.n
  THEN [ p EXCEPT !.chunk = @ + 1, !.stage = "first",
                  !.sends = Append(@, [chunk |-> p.chunk + 1, formatted |-> ~p.usePlainText]) ]
  ELSE [ p EXCEPT !.at = "sent" ]

\* The transport answers the call for a chunk: editMessageWithRetry for the first
\* chunk, sendMessageWithRetry for the others.  After "retry after N" the same call
\* is made again; after a parse error of a formatted chunk the chunk is sent without
\* parse mode; a second failure of the first chunk is swallowed, one of a later
\* chunk is thrown to the outer catch of streamSession.
FinalChunkAnswered(outcome) ==
  /\ pure.at = "final"
  /\ outcome = "parse" => pure.stage = "first" /\ ~pure.usePlainText
  /\ outcome = "retry" => pure.stage = "first"
  /\ pure' =
       CASE outcome = "ok" -> nextChunk(pure)
         [] outcome = "retry" ->
              [ pure EXCEPT !.stage = "again",
                  !.sends = Append(@, [chunk |-> pure.chunk, formatted |-> ~pure.usePlainText]) ]
         [] outcome = "parse" ->
              [ pure EXCEPT !.stage = "fallback", !.rejected = TRUE,
                  !.sends = Append(@, [chunk |-> pure.chunk, formatted |-> FALSE]) ]
         [] OTHER ->
              IF pure.stage = "first" \/ pure.chunk = 1 THEN nextChunk(pure)
              ELSE [ pure EXCEPT !.at = "error" ]
  /\ UNCHANGED << bot, merging >>

\* ------------------------------------------------------------------ poll termination
STABLE_POLL_COUNT == 4

\* A plausible bug of the stability rule: the elapsed time is not looked at.
isStableCountOnly(stableCount, settled) == stableCount >= STABLE_POLL_COUNT

\* stableCount >= STABLE_POLL_COUNT && Date.now() - lastTextChange > MIN_STABLE_MS
isStable(stableCount, settled) == stableCount >= STABLE_POLL_COUNT /\ settled

\* The rest of an iteration once the text of the poll was handled: break on a
\* completion time, break on stability, else sleep.
pollAfterText(p) ==
  IF p.completed THEN [p EXCEPT !.at = "end", !.why = "completed", !.completed = FALSE]
  ELSE IF isStable(p.stableCount, p.settled) THEN [p EXCEPT !.at = "end", !.why = "stable"]
  ELSE [p EXCEPT !.at = "sleep"]

\* session.message returned (or failed: no text, no info).  changed: its text is not
\* empty and differs from lastText; completed: info.time.completed is set.  The
\* count stops at STABLE_POLL_COUNT: the code only asks whether it reached it.
PollFetched(changed, completed) ==
  /\ pure.at = "fetch"
  /\ changed => ~pure.quiet
  /\ pure' =
       IF changed
       THEN [ pure EXCEPT !.at = "upd", !.stableCount = 0, !.settled = FALSE,
                          !.completed = completed ]
       ELSE pollAfterText([ pure EXCEPT
              !.stableCount = IF @ < STABLE_POLL_COUNT THEN @ + 1 ELSE @,
              !.completed = completed ])
  /\ UNCHANGED << bot, merging >>

\* await update(true) of a poll whose text changed returned.
PollUpdated ==
  /\ pure.at = "upd"
  /\ pure' = pollAfterText(pure)
  /\ UNCHANGED << bot, merging >>

\* await utils.sleep(delay) returned: while (!state.aborted)
PollSlept ==
  /\ pure.at = "sleep"
  /\ pure' = IF pure.aborted THEN [pure EXCEPT !.at = "end", !.why = "aborted"]
             ELSE [pure EXCEPT !.at = "fetch"]
  /\ UNCHANGED << bot, merging >>

\* More than MIN_STABLE_MS have passed since lastTextChange.
StableTimeElapses ==
  /\ pure.at \in {"fetch", "upd", "sleep"}
  /\ ~pure.settled
  /\ pure' = [pure EXCEPT !.settled = TRUE]
  /\ UNCHANGED << bot, merging >>

\* The abort button or /new sets state.aborted.
PollTurnAborted ==
  /\ pure.at \in {"fetch", "upd", "sleep"}
  /\ ~pure.aborted
  /\ pure' = [pure EXCEPT !.aborted = TRUE]
  /\ UNCHANGED << bot, merging >>

\* The backend has written the last text of the message.
TextSettles ==
  /\ pure.at \in {"fetch", "upd", "sleep"}
  /\ ~pure.quiet
  /\ pure' = [pure EXCEPT !.quiet = TRUE]
  /\ UNCHANGED << bot, merging >>

\* ------------------------------------------------------------------ undo stack
\* ... ORDER BY timestamp DESC LIMIT 20 of pushUndo
UndoLimit == 20

\* The rows without the one at index i.
without(rows, i) == SubSeq(rows, 1, i - 1) \o SubSeq(rows, i + 1, Len(rows))

\* pushUndo of an entry created now.  tick: a millisecond has passed since the
\* entry before.  INSERT, then DELETE the rows that are not among the UndoLimit
\* first by timestamp DESC: among rows of equal timestamp SQL leaves the order open.
PushUndo(tick) ==
  /\ pure.at = "stack"
  /\ pure.pushes < MaxPushes
  /\ ~tick => pure.ties < MaxTies /\ pure.pushes > 0
  /\ LET now == IF tick THEN pure.now + 1 ELSE pure.now
         rows == Append(pure.rows, [id |-> pure.pushes + 1, timestamp |-> now])
     IN \E kept \in IF Len(rows) <= UndoLimit THEN {rows}
                     ELSE { without(rows, i) : i \in { j \in DOMAIN rows :
                               \A k \in DOMAIN rows : rows[j].timestamp <= rows[k].timestamp } } :
          pure' = [ pure EXCEPT !.rows = kept, !.now = now, !.pushes = @ + 1,
                                !.ties = IF tick THEN @ ELSE @ + 1 ]
  /\ UNCHANGED << bot, merging >>

\* popUndo: SELECT ... ORDER BY timestamp DESC LIMIT 1, then DELETE that row.
PopUndo ==
  /\ pure.at = "stack"
  /\ pure.pops < MaxPops
  /\ IF pure.rows = << >>
     THEN pure' = [ pure EXCEPT !.pops = @ + 1, !.popped = 0 ]
     ELSE \E i \in DOMAIN pure.rows :
            /\ \A k \in DOMAIN pure.rows : pure.rows[k].timestamp <= pure.rows[i].timestamp
            /\ pure' = [ pure EXCEPT !.pops = @ + 1, !.popped = pure.rows[i].id,
                                     !.rows = without(pure.rows, i) ]
  /\ UNCHANGED << bot, merging >>

\* ------------------------------------------------------------------ undo of file edits
\* captureFileState: the content of the file now, null when it cannot be read.
captureFileState(file) == file

\* createFileUndoEntry: the entry's data.  `before` is not a field of the entry: it
\* is the content the file had before the edit the entry is recorded for.
createFileUndoEntry(file, before) ==
  [ previousContent |-> captureFileState(file),
    existed |-> captureFileState(file) # NoFile,
    before |-> before ]

\* executeFileUndo: the file afterwards.
executeFileUndo(entry, file) ==
  IF ~entry.existed THEN NoFile
  ELSE IF entry.previousContent # NoFile THEN entry.previousContent
  ELSE file

\* The backend edits the file (tool edit or write) and emits file.edited.
BackendEdits(content) ==
  /\ pure.at = "undo"
  /\ pure.edits < MaxEdits
  /\ content # pure.file
  /\ pure' = [ pure EXCEPT !.file = content, !.edits = @ + 1,
                           !.events = Append(@, pure.file) ]
  /\ UNCHANGED << bot, merging >>

\* case "file.edited": the first event of a turn for the file records an undo entry.
EvFileEdited ==
  /\ pure.at = "undo"
  /\ pure.events # << >>
  /\ pure' = [ pure EXCEPT
        !.events = Tail(@),
        !.filesEdited = TRUE,
        !.entries = IF pure.filesEdited THEN @
                    ELSE Append(@, createFileUndoEntry(pure.file, Head(pure.events))) ]
  /\ UNCHANGED << bot, merging >>

\* The turn ends and the next one starts: createDisplayState, filesEdited: [].
NextTurnStarts ==
  /\ pure.at = "undo"
  /\ pure.filesEdited /\ pure.events = << >>
  /\ pure' = [ pure EXCEPT !.filesEdited = FALSE ]
  /\ UNCHANGED << bot, merging >>

\* /undo: undoLast pops the newest entry and executes it.
UndoLast ==
  /\ pure.at = "undo"
  /\ pure.entries # << >>
  /\ LET entry == pure.entries[Len(pure.entries)] IN
     pure' = [ pure EXCEPT
        !.entries = SubSeq(@, 1, Len(@) - 1),
        !.file = executeFileUndo(entry, pure.file),
        !.executed = @ + 1,
        !.undone = entry ]
  /\ UNCHANGED << bot, merging >>

\* ------------------------------------------------------------------ workspace check
\* extractPathFromPermission: the first path field that is a non-empty string, else
\* the first argument of the command that looks like a path, else null.
extractPathFromPermission(metadata) ==
  LET set == { i \in DOMAIN metadata.fields : metadata.fields[i] # NoPath }
      paths == IF metadata.args = NoArgs THEN {}
               ELSE { i \in DOMAIN metadata.args : metadata.args[i] \in Paths }
  IN IF set # {} THEN metadata.fields[CHOOSE i \in set : \A j \in set : i <= j]
     ELSE IF paths # {} THEN metadata.args[CHOOSE i \in paths : \A j \in paths : i <= j]
     ELSE NoPath

\* case "permission.updated" up to its answer: the workspace check on the extracted
\* path, then the policy, then the prompt.
PermissionDecided ==
  /\ pure.at = "safety"
  /\ LET targetPath == extractPathFromPermission(pure.metadata) IN
     pure' = [ pure EXCEPT
        !.at = "decided",
        !.answer = IF ~checkPermissionSafety(targetPath = "outside", allowedRoots)
                   THEN "reject"
                   ELSE IF shouldAutoAllow(pure.type, permProfile, permissionOverrides)
                   THEN "once"
                   ELSE "surfaced" ]
  /\ UNCHANGED << bot, merging >>

\* ------------------------------------------------------------------ allowed users
\* bot.on("message:text") for a text that starts with "!": the only place that looks
\* at ALLOWED_USER_IDS.  An unlisted user is refused, else the command runs.
ShellCommand ==
  /\ pure.at = "access"
  /\ pure' = [ pure EXCEPT !.shell =
                 IF pure.restricted /\ ~pure.listed THEN "denied" ELSE "executed" ]
  /\ UNCHANGED << bot, merging >>

\* ------------------------------------------------------------------ scope keys
\* A plausible bug of buildScopeKey: the user scope leaves the user out of the key.
buildScopeKeyChatOnly(p) ==
  IF p.chatType = "private"
  THEN IF p.threadId # Absent THEN << p.chatId, p.threadId >> ELSE << p.chatId >>
  ELSE IF p.mode = "thread" /\ p.threadId # Absent THEN << p.chatId, "thread", p.threadId >>
  ELSE << p.chatId >>

\* buildScopeKey: the key is the sequence of the fields the template string joins
\* with ":" (numbers hold no ":", so equal strings are equal sequences).
buildScopeKey(p) ==
  IF p.chatType = "private"
  THEN IF p.threadId # Absent THEN << p.chatId, p.threadId >> ELSE << p.chatId >>
  ELSE IF p.mode = "user"
       THEN IF p.userId # Absent THEN << p.chatId, "user", p.userId >> ELSE << p.chatId >>
  ELSE IF p.mode = "thread"
       THEN IF p.threadId # Absent THEN << p.chatId, "thread", p.threadId >> ELSE << p.chatId >>
  ELSE << p.chatId >>

\* One of the two calls returns.
BuildScopeKey(second) ==
  /\ pure.at = IF second THEN "scope1" ELSE "scope"
  /\ pure' = IF second
             THEN [ pure EXCEPT !.at = "scope2", !.keyB = buildScopeKey(pure.b) ]
             ELSE [ pure EXCEPT !.at = "scope1", !.keyA = buildScopeKey(pure.a) ]
  /\ UNCHANGED << bot, merging >>

\* ------------------------------------------------------------------ tool breadcrumb
MAX_BREADCRUMB_TOOLS == 8
BREADCRUMB_FULL_NAME_COUNT == 3

\* dedupeConsecutiveTools: the runs of equal names, each with its length.
RECURSIVE dedupeConsecutiveTools(_, _)
dedupeConsecutiveTools(items, tools) ==
  IF tools = << >> THEN items
  ELSE LET tool == Head(tools)
           n == Len(items)
       IN IF n > 0 /\ items[n].name = tool
          THEN dedupeConsecutiveTools([items EXCEPT ![n].count = @ + 1], Tail(tools))
          ELSE dedupeConsecutiveTools(Append(items, [name |-> tool, count |-> 1]), Tail(tools))

\* The entries of the breadcrumb, in the order they are joined by arrows.  An entry
\* is the elision mark, a run of the history or the tool in progress; full: the
\* name follows the icon; count: the number of its " xN" suffix, 0 without suffix;
\* running: "..." follows.
formatToolBreadcrumb(toolHistory, currentTool) ==
  IF toolHistory = << >> /\ currentTool = NoTool THEN << >>
  ELSE
    LET deduped == dedupeConsecutiveTools(<< >>, toolHistory)
        keepStart == (MAX_BREADCRUMB_TOOLS + 1) \div 2
        keepEnd == MAX_BREADCRUMB_TOOLS \div 2
        items ==
          IF Len(deduped) > MAX_BREADCRUMB_TOOLS
          THEN SubSeq(deduped, 1, keepStart) \o << [name |-> "elided", count |-> 1] >>
               \o SubSeq(deduped, Len(deduped) - keepEnd + 1, Len(deduped))
          ELSE deduped
        formatted ==
          [ i \in 1..Len(items) |->
              IF items[i].name = "elided"
              THEN [ kind |-> "elided", name |-> "elided", full |-> FALSE, count |-> 0,
                     running |-> FALSE ]
              ELSE [ kind |-> "history", name |-> items[i].name,
                     full |-> i - 1 < BREADCRUMB_FULL_NAME_COUNT,
                     count |-> IF items[i].count > 2 THEN items[i].count ELSE 0,
                     running |-> FALSE ] ]
        n == Len(items)
    IN IF currentTool = NoTool THEN formatted
       ELSE IF n > 0 /\ items[n].name = currentTool
            THEN [formatted EXCEPT ![n].running = TRUE]
            ELSE Append(formatted,
                        [ kind |-> "current", name |-> currentTool,
                          full |-> n < BREADCRUMB_FULL_NAME_COUNT, count |-> 0,
                          running |-> TRUE ])

\* case "message.part.updated" with a tool part of the given status: a running tool
\* becomes currentTool, any other status pushes the tool on toolHistory; the render
\* that follows formats the breadcrumb.
ToolPart(tool, status) ==
  /\ pure.at = "tools"
  /\ status # "running" => Len(pure.toolHistory) < MaxTools
  /\ LET history == IF status = "running" THEN pure.toolHistory
                    ELSE Append(pure.toolHistory, tool)
         current == IF status = "running" THEN tool ELSE NoTool
     IN pure' = [ pure EXCEPT !.toolHistory = history, !.currentTool = current,
                              !.breadcrumb = formatToolBreadcrumb(history, current),
                              !.status = status ]
  /\ UNCHANGED << bot, merging >>

\* The texts extractTextFromParts may return: they are trimmed.
Snapshots == { normalizeDisplayText(s) : s \in Texts(MaxSnapshot) }

\* pollPromise after the prompt: lastText = extractTextFromParts(...);
\* if (lastText) state.text = lastText
promptText(text, snapshot) == IF snapshot # << >> THEN snapshot ELSE text

\* One poll: if (text && text !== lastText) state.text = mergeAssistantText(...)
pollText(text, lastText, snapshot) ==
  IF snapshot # << >> /\ snapshot # lastText THEN mergeAssistantText(text, snapshot) ELSE text

\* One poll: lastText = text, under the same condition.
pollLastText(lastText, snapshot) ==
  IF snapshot # << >> /\ snapshot # lastText THEN snapshot ELSE lastText

\* case "message.updated": if (text && text !== state.text) state.text = mergeAssistantText(...)
messageText(text, snapshot) ==
  IF snapshot # << >> /\ snapshot # text THEN mergeAssistantText(text, snapshot) ELSE text

\* A text part with a delta: state.text += delta
partDelta(text, delta) == text \o delta

\* A text part without delta: merged when t.text.trim() is not empty.
partText(text, t) ==
  IF normalizeDisplayText(t) # << >> THEN mergeAssistantText(text, t) ELSE text

\* A text reaches the running turn on one of its channels and is written to
\* state.text: the prompt's parts (once, before any poll), a poll, a
\* message.updated event, a text part with or without delta.
TextArrives(channel, input) ==
  /\ pure.at = "text"
  /\ pure.writes < MaxWrites
  /\ channel = "prompt" => ~pure.prompted /\ input \in Snapshots
  /\ channel = "poll" => pure.prompted /\ input \in Snapshots
  /\ channel = "message" => input \in Snapshots
  /\ channel = "delta" => input # << >>
  /\ pure' = [ pure EXCEPT
        !.text = CASE channel = "prompt" -> promptText(@, input)
                   [] channel = "poll" -> pollText(@, pure.lastText, input)
                   [] channel = "message" -> messageText(@, input)
                   [] channel = "delta" -> partDelta(@, input)
                   [] OTHER -> partText(@, input),
        !.lastText = CASE channel = "prompt" -> input
                       [] channel = "poll" -> pollLastText(@, input)
                       [] OTHER -> @,
        !.prompted = @ \/ channel = "prompt",
        !.writes = @ + 1, !.channel = channel, !.input = input ]
  /\ UNCHANGED << bot, merging >>

\* ------------------------------------------------------------------ specifications
UpdateOutcomes == {"ok", "retry", "parse", "fail"}

\* What the user does: messages, button presses, /new.
UserInput ==
  \/ MessageText
  \/ MessageMedia
  \/ \E t \in Keys : CallbackAbort(t) \/ CallbackPerm(t)

UserCommand == AbortActiveStreamsForSession

\* The steps of the handlers the user's input started.
Handlers ==
  \/ StartStreamingReply
  \/ \E c \in BagToSet(calls) :
       \/ AbortCallbackActs(c)
       \/ PermCallbackChecks(c)
       \/ \E ok \in BOOLEAN : PermCallbackPosted(c, ok)

CommandSteps ==
  \/ createNewSessionForChat
  \/ \E t \in Keys : AbortedStreamDeleted(t)

\* The steps of streamSession that every run takes.
StreamSession(t) ==
  \/ Subscribed(t)
  \/ \E result \in {"ok", "noinfo", "failed"}, hasText \in BOOLEAN :
       PromptReturns(t, result, hasText)
  \/ \E changed, completed, stable \in BOOLEAN : PollReturns(t, changed, completed, stable)
  \/ \E type \in PermTypes, pathOutside \in BOOLEAN : EvPermission(t, type, pathOutside)
  \/ \E ok \in BOOLEAN : AckReturns(t, ok)
  \/ \E outcome \in UpdateOutcomes : LoopUpdateReturns(t, outcome)
  \/ \E why \in {"idle", "error", "aborted"} : LoopExit(t, why)
  \/ FinalRender(t)
  \/ StreamSessionEnds(t)

\* The steps that need a backend that fails or produces text, and the clock.
StreamSessionMore(t) ==
  \/ SubscribeFails(t)
  \/ PollWakes(t)
  \/ \E outcome \in UpdateOutcomes : PollUpdateReturns(t, outcome)
  \/ \E part \in {"running", "completed", "text", "step-finish"} : EvPart(t, part)
  \/ BackoffElapses(t)
  \/ IntervalElapses(t)

\* The chat around one turn: buttons, nudges, /new, a backend that may fail.
Next ==
  \/ UserInput
  \/ UserCommand
  \/ Handlers
  \/ CommandSteps
  \/ \E t \in Keys : StreamSession(t) \/ SubscribeFails(t)

Spec == Init /\ [][Next]_vars

\* One turn with its buttons, without /new.
NextPolicy ==
  \/ UserInput
  \/ Handlers
  \/ \E t \in Keys : StreamSession(t) \/ SubscribeFails(t)

SpecPolicy == InitPolicy /\ [][NextPolicy]_vars

\* One turn in full.
NextTurn ==
  \/ UserInput
  \/ Handlers
  \/ \E t \in Keys : StreamSession(t) \/ StreamSessionMore(t)

SpecTurn == InitTurn /\ [][NextTurn]_vars

\* The events and polls that carry the usage of the step.
StreamSessionUsage(t) ==
  \/ PollWakes(t)
  \/ \E outcome \in UpdateOutcomes : PollUpdateReturns(t, outcome)
  \/ \E part \in {"running", "completed", "text", "step-finish"} : EvPart(t, part)
  \/ \E completed \in BOOLEAN : EvMessageUpdated(t, completed)
  \/ \E changed \in BOOLEAN : MessageFetched(t, changed)

\* One turn with the usage reports of its step.
NextUsage ==
  \/ UserInput
  \/ Handlers
  \/ \E t \in Keys : StreamSession(t) \/ StreamSessionUsage(t)

SpecUsage == InitUsage /\ [][NextUsage]_vars

\* mergeAssistantText on its own.
NextMerge == MergeAssistantText

SpecMerge == InitMerge /\ [][NextMerge]_vars

\* One turn with its part events and the clock of the update interval.
NextThrottle ==
  \/ UserInput
  \/ Handlers
  \/ \E t \in Keys :
       \/ StreamSession(t)
       \/ \E part \in {"running", "completed", "text", "step-finish"} : EvPart(t, part)
       \/ IntervalElapses(t)

SpecThrottle == InitThrottle /\ [][NextThrottle]_vars

\* splitRawMarkdown and clampRawMarkdown on their own.
NextMarkdown == \E clamp \in BOOLEAN : SplitRawMarkdown(clamp)

SpecMarkdown == InitMarkdown /\ [][NextMarkdown]_vars

\* The turn of a strict-profile user takes the same steps.
SpecStrict == InitStrict /\ [][NextPolicy]_vars

\* The final message of a turn, chunk by chunk.
NextFinal == \E outcome \in {"ok", "retry", "parse", "fail"} : FinalChunkAnswered(outcome)

SpecFinal == InitFinal /\ [][NextFinal]_vars

\* The steps of the poller.
PollSteps ==
  \/ \E changed \in BOOLEAN, completed \in BOOLEAN : PollFetched(changed, completed)
  \/ PollUpdated
  \/ PollSlept

NextPoll == PollSteps \/ StableTimeElapses \/ PollTurnAborted \/ TextSettles

\* The poller under fair scheduling: its calls return, and time passes while it
\* sleeps (every sleep lasts at least POLL_INITIAL_MS); nothing obliges the user to
\* abort or the backend to stop writing.
SpecPoll ==
  InitPoll /\ [][NextPoll]_vars /\ WF_vars(PollSteps) /\ WF_vars(StableTimeElapses)

\* Any sequence of pushUndo and popUndo calls of one user.
NextUndoStack == PopUndo \/ \E tick \in BOOLEAN : PushUndo(tick)

SpecUndoStack == InitUndoStack /\ [][NextUndoStack]_vars

\* The edits of a file, their events and the user's /undo.
NextUndo ==
  \/ \E content \in {NoFile} \cup 1..MaxContent : BackendEdits(content)
  \/ EvFileEdited
  \/ NextTurnStarts
  \/ UndoLast

SpecUndo == InitUndo /\ [][NextUndo]_vars

\* The decision on one permission request.
NextSafety == PermissionDecided

SpecSafety == InitSafety /\ [][NextSafety]_vars

\* One turn with its buttons, and the shell commands of the user.
NextAccess == NextPolicy \/ ShellCommand

SpecAccess == InitAccess /\ [][NextAccess]_vars

\* buildScopeKey on its own.
NextScope == \E second \in BOOLEAN : BuildScopeKey(second)

SpecScope == InitScope /\ [][NextScope]_vars

\* The tool parts of one turn.
NextBreadcrumb ==
  \E tool \in Tools, status \in {"pending", "running", "completed", "error"} :
     ToolPart(tool, status)

SpecBreadcrumb == InitBreadcrumb /\ [][NextBreadcrumb]_vars

\* The writers of state.text, in any order.
NextText ==
  \E channel \in {"prompt", "poll", "message", "delta", "part"}, input \in Texts(MaxSnapshot) :
     TextArrives(channel, input)

SpecText == InitText /\ [][NextText]_vars

\* Several turns side by side.
NextChat ==
  \/ UserInput
  \/ UserCommand
  \/ Handlers
  \/ CommandSteps
  \/ \E t \in Keys : StreamSession(t)

SpecChat == InitChat /\ [][NextChat]_vars

\* What the program does by itself once the user's input is in: every handler that
\* was started goes on, every call to the backend or the transport returns, the
\* event stream delivers its next event.
Program ==
  \/ Handlers
  \/ CommandSteps
  \/ \E t \in Keys : StreamSession(t) \/ SubscribeFails(t)

\* One turn followed to its end under fair scheduling.  Nothing obliges the user to
\* send or press anything.
SpecFair == InitOne /\ [][Next]_vars /\ WF_vars(Program)


\* ------------------------------------------------------------------ phase
\* A write of state.phase by an event or a poll.
phaseWritten(p, phase, by) ==
  [p EXCEPT !.phase = phase, !.by = by, !.events = @ + 1, !.trail = Append(@, phase),
            !.reached = @ \/ phase \in {"tools", "responding"}]

\* case "message.part.updated": a reasoning part writes "reasoning", a tool part
\* "tools", a text part "responding"; a step-finish part leaves the phase.
PhasePart(type) ==
  /\ pure.at = "phase" /\ ~pure.waiting /\ pure.events < MaxPhaseEvents
  /\ pure' = CASE type = "reasoning" -> phaseWritten(pure, "reasoning", "reasoning")
               [] type = "tool" -> phaseWritten(pure, "tools", "tool")
               [] type = "text" -> phaseWritten(pure, "responding", "text")
               [] OTHER -> [pure EXCEPT !.events = @ + 1]
  /\ UNCHANGED << bot, merging >>

\* case "message.updated": a snapshot whose text differs from state.text writes
\* "responding".
PhaseMessageUpdated(changed) ==
  /\ pure.at = "phase" /\ ~pure.waiting /\ pure.events < MaxPhaseEvents
  /\ pure' = IF changed THEN phaseWritten(pure, "responding", "message")
                        ELSE [pure EXCEPT !.events = @ + 1]
  /\ UNCHANGED << bot, merging >>

\* case "permission.updated" for a request that is surfaced: phase "permission",
\* then the loop waits for the decision.
PhasePermission ==
  /\ pure.at = "phase" /\ ~pure.waiting /\ pure.events < MaxPhaseEvents
  /\ pure' = [phaseWritten(pure, "permission", "permission") EXCEPT !.waiting = TRUE]
  /\ UNCHANGED << bot, merging >>

\* The permission callback: phase "tools", and the wait is resolved.
PhasePermissionAnswered ==
  /\ pure.at = "phase" /\ pure.waiting
  /\ pure' = [phaseWritten(pure, "tools", "callback") EXCEPT !.waiting = FALSE,
                                                            !.events = pure.events]
  /\ UNCHANGED << bot, merging >>

\* A poll of the poller that found new text: phase "responding", also while the
\* loop waits for a permission.
PhasePolled ==
  /\ pure.at = "phase" /\ pure.events < MaxPhaseEvents
  /\ pure' = phaseWritten(pure, "responding", "poll")
  /\ UNCHANGED << bot, merging >>

NextPhase ==
  \/ \E type \in {"reasoning", "tool", "text", "step-finish"} : PhasePart(type)
  \/ \E changed \in BOOLEAN : PhaseMessageUpdated(changed)
  \/ PhasePermission
  \/ PhasePermissionAnswered
  \/ PhasePolled

SpecPhase == InitPhase /\ [][NextPhase]_vars

\* ------------------------------------------------------------------ event session filter
EventTypes ==
  { "permission.updated", "message.updated", "message.part.updated", "todo.updated",
    "file.edited", "session.status", "session.idle" }

\* Where the properties of an event hold the id of its session: at
\* props.sessionID, at props.part.sessionID, at props.info.sessionID, or nowhere
\* (file.edited has a file and nothing else).
sessionField(type) ==
  CASE type = "message.part.updated" -> "part"
    [] type = "message.updated" -> "info"
    [] type = "file.edited" -> "none"
    [] OTHER -> "props"

\* evtSession: props.sessionID ?? props.part?.sessionID; "" when neither is there.
evtSession(event) ==
  IF sessionField(event.type) \in {"props", "part"} THEN event.session ELSE ""

\* if (evtSession && evtSession !== sessionId) continue
skipped(event) == evtSession(event) # "" /\ evtSession(event) # "mine"

\* The switch on event.type for an event the filter let through.  payload: for
\* permission.updated 0 auto-allowed, 1 rejected by the safety check, 2 surfaced;
\* for todo.updated the list; for file.edited the file; for session.status 1 a retry;
\* else 1 a change of text.
handled(p, event) ==
  LET st == p.state
      n == event.payload
  IN CASE event.type = "permission.updated" ->
            IF n = 0 THEN [p EXCEPT !.acks = @ + 1]
            ELSE IF n = 1 THEN [p EXCEPT !.acks = @ + 1, !.renders = @ + 1,
                                         !.state.statusNote = TRUE]
            ELSE [p EXCEPT !.renders = @ + 1, !.state.phase = "permission",
                           !.state.pendingPermission = TRUE]
       [] event.type = "message.updated" ->
            IF event.session # "mine" \/ n = 0 THEN p
            ELSE [p EXCEPT !.renders = @ + 1, !.state.phase = "responding"]
       [] event.type = "message.part.updated" ->
            IF event.session # "mine" THEN p
            ELSE [p EXCEPT !.renders = @ + 1,
                           !.state.phase = IF n = 0 THEN "tools" ELSE "responding"]
       [] event.type = "todo.updated" ->
            [p EXCEPT !.renders = @ + 1, !.state.todos = n]
       [] event.type = "file.edited" ->
            IF n = NoFile \/ n \in st.filesEdited THEN p
            ELSE [p EXCEPT !.undo = @ + 1, !.state.filesEdited = @ \cup {n}]
       [] event.type = "session.status" ->
            IF n = 0 THEN p ELSE [p EXCEPT !.renders = @ + 1, !.state.statusNote = TRUE]
       [] OTHER -> [p EXCEPT !.ended = TRUE]

\* One turn of the for-await loop: the filter, then the switch.
StreamEvent(type, session, payload) ==
  /\ pure.at = "stream" /\ ~pure.ended /\ pure.handled < MaxStreamEvents
  /\ LET event == [ type |-> type, session |-> session, payload |-> payload ]
         p == [pure EXCEPT !.handled = @ + 1, !.last = event]
     IN pure' = IF skipped(event) THEN p ELSE handled(p, event)
  /\ UNCHANGED << bot, merging >>

NextStream ==
  \E type \in EventTypes, session \in {"mine", "other"}, payload \in 0..MaxFiles :
     StreamEvent(type, session, payload)

SpecStream == InitStream /\ [][NextStream]_vars

\* ------------------------------------------------------------------ git confirmation
\* bot.command("git"): a safe command runs at once, a command of
\* GIT_CONFIRM_COMMANDS is stored under a fresh id with its sender and the time,
\* anything else is answered "Unsupported command.".
GitCommand(userId, cmd) ==
  /\ pure.at = "git"
  /\ CASE cmd = "safe" ->
            /\ pure.direct < 1
            /\ pure' = [pure EXCEPT !.direct = @ + 1]
       [] cmd = "confirm" ->
            /\ pure.issued < MaxGitCommands
            /\ LET id == pure.issued + 1
               IN pure' = [pure EXCEPT !.issued = id, !.issuer[id] = userId,
                                       !.pending[id] = [userId |-> userId, expired |-> FALSE]]
       [] OTHER -> /\ pure.direct < 1
                   /\ pure' = pure
  /\ UNCHANGED << bot, merging >>

\* Date.now() - pending.createdAt > GIT_CONFIRM_TTL_MS from now on.
GitTtlElapses(id) ==
  /\ pure.at = "git"
  /\ pure.pending[id] # NoPending /\ ~pure.pending[id].expired
  /\ pure' = [pure EXCEPT !.pending[id].expired = TRUE]
  /\ UNCHANGED << bot, merging >>

\* Another user may take the place of the sender: the test on pending.userId gone.
confirmableByAnyone(pending, userId) ==
  pending # NoPending /\ ~pending.expired

\* The negation of: !pending || pending.userId !== userId ||
\* Date.now() - pending.createdAt > GIT_CONFIRM_TTL_MS.
confirmable(pending, userId) ==
  pending # NoPending /\ pending.userId = userId /\ ~pending.expired

\* Why a callback is answered "Expired".
refusal(p, id, userId) ==
  IF p.pending[id] = NoPending THEN (IF p.issuer[id] = 0 THEN "unknown" ELSE "gone")
  ELSE IF p.pending[id].userId # userId THEN "other"
  ELSE "expired"

\* bot.callbackQuery(/^git:(confirm|cancel):(.+)$/) up to its first await: the
\* lookup, the three tests, pendingGitCommands.delete(id), and for a cancel the
\* answer "Canceled".
GitCallback(action, id, userId) ==
  /\ pure.at = "git" /\ pure.calls < MaxGitCallbacks
  /\ LET pending == pure.pending[id]
         p == [pure EXCEPT !.calls = @ + 1]
     IN pure' =
          IF ~confirmable(pending, userId)
          THEN [p EXCEPT !.refused[id] = @ \cup {refusal(pure, id, userId)}]
          ELSE IF action = "cancel"
          THEN [p EXCEPT !.pending[id] = NoPending, !.refused[id] = @ \cup {"cancel"}]
          ELSE [p EXCEPT !.pending[id] = NoPending, !.answering[id] = @ + 1,
                         !.granted[id] = @ + 1,
                         !.grants[id] = @ \cup {[ userId |-> userId, action |-> action,
                                                  expired |-> pending.expired ]}]
  /\ UNCHANGED << bot, merging >>

\* await ctx.answerCallbackQuery({ text: "Running..." }) returns, or throws and
\* ends the handler.
GitAnswered(id, ok) ==
  /\ pure.at = "git" /\ pure.answering[id] > 0
  /\ pure' = [pure EXCEPT !.answering[id] = @ - 1,
                          !.running[id] = IF ok THEN @ + 1 ELSE @]
  /\ UNCHANGED << bot, merging >>

\* runGitCommand(["rev-parse", "HEAD"]), then runGitCommand(pending.args).
GitRuns(id) ==
  /\ pure.at = "git" /\ pure.running[id] > 0
  /\ pure' = [pure EXCEPT !.running[id] = @ - 1, !.executed[id] = @ + 1]
  /\ UNCHANGED << bot, merging >>

NextGit ==
  \/ \E userId \in 1..MaxUsers, cmd \in {"safe", "confirm", "other"} : GitCommand(userId, cmd)
  \/ \E id \in 1..MaxGitCommands : GitTtlElapses(id)
  \/ \E action \in {"confirm", "cancel"}, id \in 1..MaxGitCommands, userId \in 1..MaxUsers :
        GitCallback(action, id, userId)
  \/ \E id \in 1..MaxGitCommands, ok \in BOOLEAN : GitAnswered(id, ok)
  \/ \E id \in 1..MaxGitCommands : GitRuns(id)

SpecGit == InitGit /\ [][NextGit]_vars
\* ------------------------------------------------------------------ claims
\* C1: at any time at most one un-aborted entry of activeMessages belongs to a given
\* session, whatever inputs (text, photo, document, voice, workflow) arrive while a
\* turn is active.
OneActiveTurnPerSession ==
  \A s \in Sessions :
     Cardinality({t \in activeMessages : entrySession[t] = s /\ ~state[t].aborted}) <= 1

\* C2: over a whole aborted turn exactly one "Stopped" render is sent, counting the
\* abort callback, abortActiveStreamsForSession and streamSession's final render:
\* never more than one, and one once the aborted turn has ended.
OneStoppedRender ==
  \A t \in Keys :
     /\ sent[t].stopped <= 1
     /\ pc[t] = "end" /\ state[t].aborted => sent[t].stopped = 1

\* C3: every turn that is started eventually sends a terminal render (final
\* transcript, "Stopped" or an error text) and removes its entry from activeMessages.
TurnReachesTerminalRender ==
  \A t \in Keys :
     (pc[t] = "subscribe") ~>
        (/\ pc[t] = "end"
         /\ t \notin activeMessages
         /\ sent[t].final + sent[t].stopped + sent[t].error > 0)

\* C4: once a permission request is surfaced and the turn is aborted before a
\* decision, also before the wait's resolver is stored on the entry, the loop leaves
\* the permission wait for the aborted terminal path.
AbortReleasesPermissionWait ==
  \A t \in Keys :
     (state[t].aborted /\ pc[t] \in {"permUpd", "wait"}) ~> (pc[t] \in {"join", "final", "end"})

\* C5: once a turn is aborted while it awaits a permission, no decision for its
\* pending request is posted to the backend by a later permission button.
NoDecisionAfterAbort == ~backend.decidedAfterAbort

\* C6: for each surfaced permission request at most one decision is posted to the
\* backend, however permission and abort callbacks interleave.
AtMostOneDecisionPerRequest ==
  \A t \in Keys : \A p \in PermIds : backend.decisions[t][p] <= 1

\* C7: when the loop suspends on a permission request that is not auto-approved,
\* the prompt of that request has been sent to the transport with the permission
\* keyboard, whatever the throttle state.
PromptSentBeforeSuspend ==
  \A t \in Keys : pc[t] = "wait" => resolvePermission[t] \in sent[t].prompts

\* C8: a permission request the policy auto-approves (its path is not outside the
\* allowed roots, and the first override row that decides allows its type or, with
\* no such row, its type is in the profile's auto-allow set) is acknowledged with "once" and never
\* sets phase to permission, never sets pendingPermission, never shows a prompt and
\* never suspends the event loop.
AutoApprovedNeverSurfaces ==
  \A t \in Keys :
     LET id == seen[t].perms
         ov == permissionOverrides
         decides(i) == ov[i].tool \in {seen[t].type, "*"} /\ ov[i].action \in {"allow", "deny"}
         allowed == \/ \E i \in DOMAIN ov :
                         decides(i) /\ ov[i].action = "allow" /\ \A j \in 1..(i - 1) : ~decides(j)
                    \/ /\ \A i \in DOMAIN ov : ~decides(i)
                       /\ seen[t].type \in getAutoAllowSet(permProfile)
     IN
     (id # 0 /\ (allowedRoots => ~seen[t].outside) /\ allowed)
     => /\ backend.acks[t][id] = "once"
        /\ state[t].phase # "permission"
        /\ state[t].pendingPermission # id
        /\ resolvePermission[t] # id
        /\ id \notin sent[t].prompts
        /\ pc[t] \notin {"permUpd", "wait"}

\* C8, its case: a read request under the balanced profile was acknowledged and the
\* loop went on to the next event.
AutoApprovedHandled ==
  \E t \in Keys :
     /\ seen[t].perms # 0
     /\ permProfile = "balanced" /\ permissionOverrides = << >>
     /\ seen[t].type = "read"
     /\ allowedRoots => ~seen[t].outside
     /\ backend.acks[t][seen[t].perms] = "once"
     /\ pc[t] = "next"

\* C9: a text that arrives while a turn of the session has a pending permission is
\* queued and not sent to the backend before the permission resolves.
NudgeHeldWhilePermissionPending == ~backend.directWhilePending

\* C10: a step in which a user decision resolves a permission of a session sends the
\* whole queue of the session as one combined message, in submission order, and
\* leaves the queue empty; any other step sends no queued nudge and at most appends
\* the incoming text to the queue.
NudgesFlushedOnce ==
  [][\A s \in Sessions :
       LET q == pendingNudges[s]
           decided == \E t \in Keys : /\ entrySession[t] = s
                                      /\ state[t].pendingPermission # NoPerm
                                      /\ state'[t].pendingPermission = NoPerm
       IN IF decided
          THEN /\ pendingNudges'[s] = << >>
               /\ backend'.nudges[s] =
                    IF q = << >> THEN backend.nudges[s] ELSE Append(backend.nudges[s], q)
          ELSE /\ backend'.nudges[s] = backend.nudges[s]
               /\ \/ pendingNudges'[s] = q
                  \/ /\ nudgeCount' = nudgeCount + 1
                     /\ pendingNudges'[s] = Append(q, nudgeCount')
    ]_vars

\* C10, its case: two nudges queued during one suspension went out as one message.
TwoNudgesFlushedTogether ==
  \E s \in Sessions : \E i \in DOMAIN backend.nudges[s] : backend.nudges[s][i] = << 1, 2 >>


\* C11: when a turn has ended, by normal completion or by abort, the nudge queue of
\* its session is empty, so that no nudge queued during it is left for a later flush.
NudgeQueueEmptyAtTurnEnd ==
  \A t \in Keys : pc[t] = "end" => pendingNudges[entrySession[t]] = << >>

\* C12: in every reachable state of a turn, pendingPermission is non-null only if
\* phase is permission, whatever the poller and the loop write meanwhile.
PendingOnlyInPermissionPhase ==
  \A t \in Keys : state[t].pendingPermission # NoPerm => state[t].phase = "permission"

\* C13: in every reachable state in which a turn is aborted, its pendingPermission
\* is null and its currentTool is null.
AbortedHoldsNoPermissionNorTool ==
  \A t \in Keys :
     state[t].aborted => state[t].pendingPermission = NoPerm /\ ~state[t].currentTool

\* C14: the aborted flag of a turn is never reset, and in a step taken while it is
\* set no progress or transcript render (an editMessageText of update) and no
\* final-summary render of that turn is sent.
NoRenderAfterAbort ==
  [][\A t \in Keys :
       state[t].aborted =>
         /\ state'[t].aborted
         /\ \A who \in {"loop", "poll"} :
               inflight'[t][who] # inflight[t][who] => inflight'[t][who].stage = "none"
         /\ sent'[t].final = sent[t].final
    ]_vars

\* C15: in a step taken after a turn was aborted no field of its DisplayState
\* changes, also not by a poll or an event handler that was awaiting the backend
\* when the abort arrived.
NoMutationAfterAbort ==
  [][\A t \in Keys : state[t].aborted => state'[t] = state[t]]_vars

\* C16: the cleanup of a turn runs once: over the whole turn at most one terminal
\* render (final transcript, "Stopped" or error text) is sent, also when the loop's
\* completion races with an abort.
OneTerminalRender ==
  \A t \in Keys : sent[t].final + sent[t].stopped + sent[t].error <= 1

\* C17: an abort callback that acts on a turn already aborted changes no state of
\* the turn and sends no further render.
AbortIsIdempotent ==
  [][\A c \in BagToSet(calls) :
       (/\ c.kind = "abort" /\ c.entry
        /\ state[c.key].aborted
        /\ calls' = calls (-) SetToBag({c}))
       => state' = state /\ pc' = pc /\ sent' = sent
    ]_vars

\* C18: whatever usage reports of its one backend step have reached a turn
\* (step-finish parts, message.updated events, poll snapshots), the turn's token and
\* cost counters hold exactly one step's worth.
StepCreditedOnce ==
  \A t \in Keys : state[t].tokens = IF seen[t].reports = << >> THEN 0 ELSE 1

\* The total credited to a fresh turn by the reports of `channels`, taken in order.
RECURSIVE creditAll(_, _, _)
creditAll(st, latch, channels) ==
  IF channels = << >> THEN st.tokens
  ELSE creditAll(credit(st, latch, Head(channels)), latched(latch, Head(channels)),
                 Tail(channels))

\* C19: when a step-finish part and a poll snapshot of the same step have reached a
\* turn, the total credited is the one the two reports credit in the other order.
CreditOrderIndependent ==
  \A t \in Keys :
     LET reports == seen[t].reports IN
     (Len(reports) = 2 /\ {reports[1], reports[2]} = {"step-finish", "poll"})
     => state[t].tokens =
          creditAll(createDisplayState, FALSE, << reports[2], reports[1] >>)

\* C20: mergeAssistantText returns the longer of the transcript and the new text
\* (trimmed) whenever the new text equals the transcript, is a prefix of it, is a
\* suffix of it or extends it; in every other case it returns the transcript, a
\* line break (unless the transcript ends with one) and the new text.
MergeKeepsLongerOrAppends ==
  merging.at = "done" =>
    LET current == merging.current
        next == normalizeDisplayText(merging.next)
        related == \/ startsWith(current, next) \/ endsWith(current, next)
                   \/ startsWith(next, current)
        longer == IF Len(next) > Len(current) THEN next ELSE current
        boundary == IF endsWith(current, << "\n" >>) THEN << >> ELSE << "\n" >>
    IN merging.result = IF related THEN longer ELSE current \o boundary \o next

\* C21: when a text snapshot that one channel (a poll, a message.updated event) has
\* just delivered is delivered again by the other channel, the transcript stays as
\* it is: the snapshot is not added a second time.
SnapshotNotDuplicated ==
  [][(/\ pure.at = "text"
      /\ {pure.channel, pure'.channel} = {"poll", "message"}
      /\ pure'.writes = pure.writes + 1
      /\ pure'.input = pure.input)
     => pure'.text = pure.text
    ]_vars

\* C22: no write to the transcript of a turn makes it shorter, whichever channel
\* writes and in whatever order the texts arrive.
TranscriptNeverShrinks ==
  [][pure.at = "text" /\ pure'.at = "text" => Len(pure'.text) >= Len(pure.text)]_vars

\* C23: since the last render of a forced update, the non-forced updates that
\* arrived less than the minimum interval after the last send have sent at most
\* one render.
OneQuickRenderAtMost ==
  \A t \in Keys : sent[t].quick <= 1

\* C24: for a text whose fences are balanced, every chunk splitRawMarkdown produces,
\* and the text clampRawMarkdown keeps, contains an even number of ``` fence markers.
EvenFencesInEveryChunk ==
  (pure.at \in {"split", "clamped"} /\ fenceCount(pure.text) % 2 = 0)
  => \A i \in DOMAIN pure.chunks : fenceCount(pure.chunks[i]) % 2 = 0

\* C25: a turn whose prompt call failed (it rejected, or returned no assistant
\* message) and that was not aborted by the user ends with exactly one terminal
\* render, the error text.
FailedPromptEndsInErrorRender ==
  \A t \in Keys :
     (pc[t] = "end" /\ seen[t].prompt \in {"failed", "noinfo"} /\ ~state[t].aborted)
     => (sent[t].error = 1 /\ sent[t].final = 0)

\* C26: in the tool breadcrumb consecutive identical tool names collapse into one
\* entry that shows the repeat count: as long as nothing is elided there is one
\* entry per run of the history, and a tool that occurs twice in a row has an entry
\* marked with its count.
ConsecutiveToolsCollapseWithCount ==
  pure.at = "tools" =>
    LET h == pure.toolHistory
        runs == IF h = << >> THEN 0
                ELSE 1 + Cardinality({ k \in 1..(Len(h) - 1) : h[k] # h[k + 1] })
        entries == { i \in DOMAIN pure.breadcrumb : pure.breadcrumb[i].kind = "history" }
    IN runs <= MAX_BREADCRUMB_TOOLS =>
         /\ Cardinality(entries) = runs
         /\ \A k \in 1..(Len(h) - 1) :
               h[k] = h[k + 1] =>
                 \E i \in entries : /\ pure.breadcrumb[i].name = h[k]
                                     /\ pure.breadcrumb[i].count >= 2

ScopeKeysSeparateUsers ==
  LET a == pure.a
      b == pure.b
  IN (/\ pure.at = "scope2"
      /\ a.chatType = "group" /\ b.chatType = "group" /\ a.chatId = b.chatId
      /\ a.userId # Absent /\ b.userId # Absent)
     => /\ (a.mode = "user" /\ b.mode = "user" /\ a.userId # b.userId)
              => pure.keyA # pure.keyB
        /\ (a.mode = "thread" /\ b.mode = "thread" /\ a.threadId = b.threadId)
              => pure.keyA = pure.keyB
        /\ (a.mode = "shared" /\ b.mode = "shared") => pure.keyA = pure.keyB
        /\ (a.mode = "user" /\ b.mode \in {"thread", "shared"}) => pure.keyA # pure.keyB

\* C28, its case: two users of one thread of a group chat, both under user scope,
\* have got their keys.
TwoUsersOfAThreadKeyed ==
  /\ pure.at = "scope2"
  /\ pure.a.chatType = "group" /\ pure.b.chatType = "group"
  /\ pure.a.chatId = pure.b.chatId /\ pure.a.threadId = pure.b.threadId
  /\ pure.a.threadId # Absent
  /\ pure.a.mode = "user" /\ pure.b.mode = "user"
  /\ pure.a.userId # Absent /\ pure.b.userId # Absent /\ pure.a.userId # pure.b.userId
  /\ pure.keyA = << pure.a.chatId, "user", pure.a.userId >>
  /\ pure.keyB = << pure.b.chatId, "user", pure.b.userId >>

\* C29: when ALLOWED_USER_IDS is not empty, the messages of a user who is not in the
\* list never start a turn, never send or queue a nudge and never run a command.
UnlistedUserReachesNothing ==
  (pure.at = "access" /\ pure.restricted /\ ~pure.listed)
  => /\ starting = 0
     /\ nudgeCount = 0
     /\ \A t \in Keys : pc[t] = "free"
     /\ pure.shell # "executed"

\* C30: with allowed roots configured, a permission request that names a path
\* outside the roots, in a path field or as an argument of its command, is answered
\* with reject, neither auto-approved nor surfaced, whatever the profile; with no
\* roots no request is rejected.
OutsidePathRejected ==
  pure.at = "decided" =>
    LET m == pure.metadata
        leaves == \/ \E i \in DOMAIN m.fields : m.fields[i] = "outside"
                  \/ (m.args # NoArgs /\ \E i \in DOMAIN m.args : m.args[i] = "outside")
    IN /\ (allowedRoots /\ leaves) => pure.answer = "reject"
       /\ ~allowedRoots => pure.answer # "reject"

\* C31: executing the undo entry recorded for a file edit leaves the file with the
\* content it had before that edit, and without the file if it did not exist then.
UndoRestoresFile ==
  [][(pure.at = "undo" /\ pure'.at = "undo" /\ pure'.executed = pure.executed + 1)
       => pure'.file = pure'.undone.before]_vars

\* C32: popUndo returns and removes the entry pushed last among those still on the
\* stack, null on an empty stack; a pushUndo leaves the 20 entries pushed last.
UndoStackIsLifo ==
  [][pure.at = "stack" /\ pure'.at = "stack" =>
       LET ids == { pure.rows[i].id : i \in DOMAIN pure.rows }
           after == { pure'.rows[i].id : i \in DOMAIN pure'.rows }
           newest == CHOOSE n \in ids : \A m \in ids : m <= n
       IN /\ pure'.pops = pure.pops + 1 =>
               IF ids = {} THEN pure'.popped = 0 /\ after = {}
               ELSE pure'.popped = newest /\ after = ids \ {newest}
          /\ pure'.pushes = pure.pushes + 1 =>
               LET all == ids \cup {pure'.pushes}
               IN after = { n \in all : Cardinality({ m \in all : m > n }) < UndoLimit }]_vars

\* C33: the poller has left its loop only if the turn is aborted, or the poll
\* reported a completion time, or STABLE_POLL_COUNT polls in a row saw no change and
\* more than MIN_STABLE_MS have passed since the last change; and once the text has
\* stopped changing the poller does leave the loop.
PollerLeavesWhenDue ==
  /\ [](pure.at = "end" =>
          \/ pure.aborted
          \/ pure.why = "completed"
          \/ pure.stableCount >= STABLE_POLL_COUNT /\ pure.settled)
  /\ (pure.quiet ~> pure.at = "end")

\* C33, its case: the text stopped changing and the poller left on the stability
\* rule, in a turn that was not aborted.
PollerLeftOnStability ==
  /\ pure.at = "end" /\ pure.why = "stable"
  /\ pure.quiet /\ ~pure.aborted
  /\ pure.stableCount = STABLE_POLL_COUNT /\ pure.settled

\* C34: a tool part with status running sets currentTool to its tool; only a part
\* with a terminal status (completed or error) appends its tool to toolHistory and
\* clears currentTool.
OnlyTerminalStatusEntersHistory ==
  [][pure.at = "tools" /\ pure'.at = "tools" =>
       /\ pure'.status = "running" => pure'.currentTool \in Tools
       /\ pure'.toolHistory # pure.toolHistory => pure'.status \in {"completed", "error"}]_vars

\* C35: while a turn is in the pause the transport asked for ("retry after N", N
\* seconds not yet over), no render of the turn is attempted: update issues no
\* editMessageText and the final render is not sent.
NoRenderDuringBackoff ==
  [][\A t \in Keys :
       gate[t].inBackoff =>
         /\ sent'[t].final = sent[t].final
         /\ inflight'[t].loop.stage = "first" => inflight'[t].loop = inflight[t].loop
         /\ inflight'[t].poll.stage = "first" => inflight'[t].poll = inflight[t].poll]_vars

\* C36: once the transport refused a formatted render of the turn as unparsable,
\* every later render of the turn, the chunks of the final message included, is
\* sent without parse mode.
PlainTextChoiceIsKept ==
  [][(pure.at = "final" /\ pure.rejected /\ Len(pure'.sends) > Len(pure.sends))
       => ~pure'.sends[Len(pure'.sends)].formatted]_vars

\* C37: a turn's phase only moves forward: once it has been tools or responding, no
\* event and no poll writes thinking or reasoning again.
PhaseNeverReturnsToReasoning ==
  [][(pure.at = "phase" /\ pure.reached) => pure'.phase \notin {"thinking", "reasoning"}]_vars

\* C38: an event of another session never changes the Turn State of this turn and
\* causes no render, no undo entry and no permission decision for it, whatever
\* its type.
ForeignEventsChangeNothing ==
  [][(pure.at = "stream" /\ pure'.handled > pure.handled /\ pure'.last.session = "other")
       => /\ pure'.state = pure.state
          /\ pure'.renders = pure.renders
          /\ pure'.undo = pure.undo
          /\ pure'.acks = pure.acks]_vars

\* C39: for one turn at most one editMessageText issued by update awaits the
\* transport at a time, also when the poller and the event loop both call update.
OneProgressRenderInFlight ==
  \A t \in Keys : inflight[t].loop.stage = "none" \/ inflight[t].poll.stage = "none"

\* C40: a git command that awaits confirmation is executed at most once, and only
\* on a confirm callback of the user who issued it before the TTL elapsed: a
\* cancel, an expired request, a callback of another user and a repeated confirm
\* start no run.
GitRunsOnceOnOwnersConfirm ==
  pure.at = "git" =>
    \A id \in 1..MaxGitCommands :
       /\ pure.executed[id] <= 1
       /\ pure.executed[id] + pure.running[id] + pure.answering[id] <= pure.granted[id]
       /\ pure.granted[id] <= 1
       /\ \A g \in pure.grants[id] :
             g.action = "confirm" /\ g.userId = pure.issuer[id] /\ ~g.expired
       /\ pure.refused[id] # {} /\ pure.granted[id] = 0 => pure.executed[id] = 0

\* A command that ran once, after another user pressed its button and before its
\* sender confirmed a second time.
GitRanDespiteOtherPresses ==
  /\ pure.at = "git"
  /\ \E id \in 1..MaxGitCommands :
        pure.executed[id] = 1 /\ {"other", "gone"} \subseteq pure.refused[id]
====
